---- MODULE Spec2Model ----
(***************************************************************************)
(* rexif: the TIFF/EXIF directory decoder (tiff.rs, types.rs,              *)
(* types_impl.rs).                                                         *)
(*                                                                         *)
(* Numbers.  A u32 or usize is a record [hi, lo] in base 2^16, because the *)
(* values a file can hold (up to 2^32-1, and 8 * (2^32-1) for a payload    *)
(* length) exceed the integers of the model checker.  usize is the 64-bit  *)
(* usize of the usual targets: a u32 widens to it without loss.  A u8 or   *)
(* u16 is a plain integer.                                                 *)
(*                                                                         *)
(* Strings are sequences of tokens (Lit, Num, Chr), so that formatting is  *)
(* a computation and two different renderings are different values.        *)
(***************************************************************************)
EXTENDS Integers, Sequences, FiniteSets, TLC

VARIABLES
    contents,           \* parse_tiff: the byte buffer
    warnings,           \* parse_tiff: the shared diagnostics list
    pc,                 \* position in parse_tiff / parse_ifds
    le,                 \* parse_tiff: the selected byte order
    offset,             \* parse_ifds: ifd0_offset
    exif_entries,       \* parse_ifds: the accumulator
    ifd,                \* parse_ifds: the raw root entries of the second pass
    idx,                \* parse_ifds: position of the pointer scan (1-based)
    exif_entries_copy,  \* parse_ifds: the snapshot handed to postprocessing
    pidx,               \* parse_ifds: position of the postprocessing loop
    result,             \* what parse_tiff returned
    walks,              \* history: one record per call of parse_exif_ifd
    arith,              \* history: every usize sum and product computed
    posts,              \* history: the calls of exif_postprocessing
    entry,              \* copy_data: the IfdEntry (self)
    ret,                \* copy_data: the value returned
    args,               \* a function called on its own: its arguments
    out                 \* a function called on its own: what it returned

vars == <<contents, warnings, pc, le, offset, exif_entries, ifd, idx,
          exif_entries_copy, pidx, result, walks, arith, posts, entry, ret, args, out>>

-----------------------------------------------------------------------------
(* Bounds of the model *)

\* Root directories hold up to MaxRoot entries of the input catalogue.
MaxRoot == 2

\* copy_data is tried on element counts 0..MaxCount (and two beyond 2^31).
MaxCount == 8

-----------------------------------------------------------------------------
(* Numbers *)

Base == 256 * 256

U(n) == [hi |-> n \div Base, lo |-> n % Base]

WAdd(a, b) ==
    LET s == a.lo + b.lo
    IN  [hi |-> a.hi + b.hi + (s \div Base), lo |-> s % Base]

\* a * n for a small n (an element size, or 12)
WMul(a, n) ==
    LET p == a.lo * n
    IN  [hi |-> a.hi * n + (p \div Base), lo |-> p % Base]

WLt(a, b) == a.hi < b.hi \/ (a.hi = b.hi /\ a.lo < b.lo)
WLe(a, b) == ~WLt(b, a)

\* a usize that is known to be inside a buffer, as an index
WInt(a) == a.hi * Base + a.lo

-----------------------------------------------------------------------------
(* Strings *)

Lit(s) == [t |-> "lit", s |-> s, n |-> U(0)]
Num(w) == [t |-> "num", s |-> "", n |-> w]
Chr(b) == [t |-> "chr", s |-> "", n |-> U(b)]
Str(s) == <<Lit(s)>>

HexDigits == <<"0", "1", "2", "3", "4", "5", "6", "7",
               "8", "9", "a", "b", "c", "d", "e", "f">>

\* format!("{:x}", b) of a u8
Hex(b) ==
    IF b < 16 THEN <<Lit(HexDigits[b + 1])>>
    ELSE <<Lit(HexDigits[(b \div 16) + 1]), Lit(HexDigits[(b % 16) + 1])>>

-----------------------------------------------------------------------------
(* lowlevel: reading integers from a slice *)

read_u16(l, raw) ==
    IF l THEN raw[2] * 256 + raw[1] ELSE raw[1] * 256 + raw[2]

read_u32(l, raw) ==
    IF l THEN [hi |-> raw[4] * 256 + raw[3], lo |-> raw[2] * 256 + raw[1]]
    ELSE [hi |-> raw[1] * 256 + raw[2], lo |-> raw[3] * 256 + raw[4]]

\* <[u8]>::get(a..b): None when the range is reversed or ends past the slice
get(s, a, b) ==
    IF WLe(a, b) /\ WLe(b, U(Len(s)))
    THEN [some |-> TRUE, v |-> SubSeq(s, WInt(a) + 1, WInt(b))]
    ELSE [some |-> FALSE, v |-> <<>>]

-----------------------------------------------------------------------------
(* types.rs, types_impl.rs: IfdFormat and IfdEntry *)

IfdFormat == {"Unknown", "U8", "Ascii", "U16", "U32", "URational", "I8",
              "Undefined", "I16", "I32", "IRational", "F32", "F64"}

\* Mutant: the codes of I16 and I32 are exchanged.
ifdformat_new_i16_i32(n) ==
    CASE n = 1 -> "U8"
      [] n = 2 -> "Ascii"
      [] n = 3 -> "U16"
      [] n = 4 -> "U32"
      [] n = 5 -> "URational"
      [] n = 6 -> "I8"
      [] n = 7 -> "Undefined"
      [] n = 8 -> "I32"
      [] n = 9 -> "I16"
      [] n = 10 -> "IRational"
      [] n = 11 -> "F32"
      [] n = 12 -> "F64"
      [] OTHER -> "Unknown"

\* `f as u16`
FormatCode(f) ==
    CASE f = "Unknown" -> 0
      [] f = "U8" -> 1
      [] f = "Ascii" -> 2
      [] f = "U16" -> 3
      [] f = "U32" -> 4
      [] f = "URational" -> 5
      [] f = "I8" -> 6
      [] f = "Undefined" -> 7
      [] f = "I16" -> 8
      [] f = "I32" -> 9
      [] f = "IRational" -> 10
      [] f = "F32" -> 11
      [] f = "F64" -> 12

ifdformat_new(n) ==
    CASE n = 1 -> "U8"
      [] n = 2 -> "Ascii"
      [] n = 3 -> "U16"
      [] n = 4 -> "U32"
      [] n = 5 -> "URational"
      [] n = 6 -> "I8"
      [] n = 7 -> "Undefined"
      [] n = 8 -> "I16"
      [] n = 9 -> "I32"
      [] n = 10 -> "IRational"
      [] n = 11 -> "F32"
      [] n = 12 -> "F64"
      [] OTHER -> "Unknown"

IfdEntry(tag, format, count, ifd_data, l) ==
    [namespace |-> "Standard", tag |-> tag, format |-> format, count |-> count,
     ifd_data |-> ifd_data, le |-> l, ext_data |-> <<>>, data |-> <<>>]

\* Mutant: the slot is read as a big-endian number whatever the byte order is.
data_as_offset_be(self) == read_u32(FALSE, SubSeq(self.ifd_data, 1, 4))

data_as_offset(self) == read_u32(self.le, SubSeq(self.ifd_data, 1, 4))

size(self) ==
    CASE self.format = "U8" -> 1
      [] self.format = "Ascii" -> 1
      [] self.format = "U16" -> 2
      [] self.format = "U32" -> 4
      [] self.format = "URational" -> 8
      [] self.format = "I8" -> 1
      [] self.format = "Undefined" -> 1
      [] self.format = "I16" -> 2
      [] self.format = "I32" -> 4
      [] self.format = "IRational" -> 8
      [] self.format = "F32" -> 4
      [] self.format = "F64" -> 8
      [] self.format = "Unknown" -> 1

length(self) == WMul(self.count, size(self))

\* Mutant: a length of exactly 4 is read through the offset.
in_ifd_below_4(self) == WLt(length(self), U(4))

in_ifd(self) == WLe(length(self), U(4))

\* Mutant: ext_data is extended without being cleared first.
copy_data_appends(self, c) ==
    IF in_ifd(self)
    THEN [ret |-> TRUE, self |-> [self EXCEPT !.data = self.ifd_data],
          arith |-> {length(self)}]
    ELSE LET off == data_as_offset(self)
             end == WAdd(off, length(self))
             ext_data == get(c, off, end)
         IN  IF ext_data.some
             THEN [ret |-> TRUE,
                   self |-> [self EXCEPT !.ext_data = @ \o ext_data.v,
                                         !.data = self.ext_data \o ext_data.v],
                   arith |-> {length(self), end}]
             ELSE [ret |-> FALSE, self |-> self, arith |-> {length(self), end}]

\* copy_data: [ret, self after the call, the usize results computed]
copy_data(self, c) ==
    IF in_ifd(self)
    THEN [ret |-> TRUE, self |-> [self EXCEPT !.data = self.ifd_data],
          arith |-> {length(self)}]
    ELSE LET off == data_as_offset(self)
             end == WAdd(off, length(self))
             ext_data == get(c, off, end)
         IN  IF ext_data.some
             THEN [ret |-> TRUE,
                   self |-> [self EXCEPT !.ext_data = ext_data.v,
                                         !.data = ext_data.v],
                   arith |-> {length(self), end}]
             ELSE [ret |-> FALSE, self |-> self, arith |-> {length(self), end}]

-----------------------------------------------------------------------------
(* types.rs: ExifTag, TagValue; ifdformat: tag_value_new *)

\* `tag as u32` of the tags the descriptor table of the model knows
ExifTagCode(tag) ==
    CASE tag = "UnknownToMe" -> 65535
      [] tag = "Make" -> 271
      [] tag = "Orientation" -> 274
      [] tag = "XResolution" -> 282
      [] tag = "ResolutionUnit" -> 296
      [] tag = "ExifOffset" -> 34665
      [] tag = "GPSOffset" -> 34853
      [] tag = "ISOSpeedRatings" -> 34855

TagValue(variant, v) ==
    [variant |-> variant, v |-> v, le |-> FALSE, fmt |-> 0, cnt |-> U(0)]

\* Opaque bytes with the entry's byte order (Undefined, Unknown)
TagValueLe(variant, v, l) ==
    [variant |-> variant, v |-> v, le |-> l, fmt |-> 0, cnt |-> U(0)]

\* Invalid(raw data, le, format as u16, count)
TagValueInvalid(f) ==
    [variant |-> "Invalid", v |-> f.data, le |-> f.le,
     fmt |-> FormatCode(f.format), cnt |-> f.count]

\* the i-th element (0-based) of `n` bytes each, as a slice
Elem(d, i, n) == SubSeq(d, i * n + 1, i * n + n)

\* two's complement of a byte, a 16-bit and a 32-bit pattern
AsI8(b) == IF b >= 128 THEN b - 256 ELSE b
AsI16(n) == IF n >= 32768 THEN n - Base ELSE n
AsI32(w) == IF w.hi >= 32768 THEN [hi |-> w.hi - Base, lo |-> w.lo] ELSE w

Rational(l, raw) ==
    [numerator |-> read_u32(l, SubSeq(raw, 1, 4)),
     denominator |-> read_u32(l, SubSeq(raw, 5, 8))]

IRational(l, raw) ==
    [numerator |-> AsI32(read_u32(l, SubSeq(raw, 1, 4))),
     denominator |-> AsI32(read_u32(l, SubSeq(raw, 5, 8)))]

\* an f64 is kept as its two 32-bit halves, an f32 as its bit pattern
F64Bits(l, raw) ==
    IF l THEN [hi32 |-> read_u32(l, SubSeq(raw, 5, 8)), lo32 |-> read_u32(l, SubSeq(raw, 1, 4))]
    ELSE [hi32 |-> read_u32(l, SubSeq(raw, 1, 4)), lo32 |-> read_u32(l, SubSeq(raw, 5, 8))]

\* Decoding reads `count` elements left to right in the entry's own byte
\* order; fewer bytes than size * count give the Invalid variant.
tag_value_new(f) ==
    IF WLt(U(Len(f.data)), length(f)) THEN TagValueInvalid(f)
    ELSE LET n == WInt(f.count)
             d == f.data
         IN  CASE f.format = "U8" ->
                    TagValue("U8", [i \in 1..n |-> U(d[i])])
               [] f.format = "Ascii" ->
                    TagValue("Ascii", [i \in 1..n |-> Chr(d[i])])
               [] f.format = "U16" ->
                    TagValue("U16", [i \in 1..n |-> U(read_u16(f.le, Elem(d, i - 1, 2)))])
               [] f.format = "U32" ->
                    TagValue("U32", [i \in 1..n |-> read_u32(f.le, Elem(d, i - 1, 4))])
               [] f.format = "URational" ->
                    TagValue("URational", [i \in 1..n |-> Rational(f.le, Elem(d, i - 1, 8))])
               [] f.format = "I8" ->
                    TagValue("I8", [i \in 1..n |-> U(AsI8(d[i]))])
               [] f.format = "Undefined" ->
                    TagValueLe("Undefined", [i \in 1..n |-> U(d[i])], f.le)
               [] f.format = "I16" ->
                    TagValue("I16", [i \in 1..n |-> U(AsI16(read_u16(f.le, Elem(d, i - 1, 2))))])
               [] f.format = "I32" ->
                    TagValue("I32", [i \in 1..n |-> AsI32(read_u32(f.le, Elem(d, i - 1, 4)))])
               [] f.format = "IRational" ->
                    TagValue("IRational", [i \in 1..n |-> IRational(f.le, Elem(d, i - 1, 8))])
               [] f.format = "F32" ->
                    TagValue("F32", [i \in 1..n |-> read_u32(f.le, Elem(d, i - 1, 4))])
               [] f.format = "F64" ->
                    TagValue("F64", [i \in 1..n |-> F64Bits(f.le, Elem(d, i - 1, 8))])
               [] f.format = "Unknown" ->
                    TagValueLe("Unknown", [i \in 1..n |-> U(d[i])], f.le)

\* Display of one element of a numeric array
ElemToString(variant, x) ==
    CASE variant \in {"URational", "IRational"} ->
            <<Num(x.numerator), Lit("/"), Num(x.denominator)>>
      [] variant = "F32" -> <<Lit("f32"), Num(x)>>
      [] variant = "F64" -> <<Lit("f64"), Num(x.hi32), Num(x.lo32)>>
      [] OTHER -> <<Num(x)>>

RECURSIVE JoinFrom(_, _, _)
JoinFrom(variant, a, i) ==
    IF i > Len(a) THEN <<>>
    ELSE (IF i > 1 THEN <<Lit(", ")>> ELSE <<>>)
         \o ElemToString(variant, a[i]) \o JoinFrom(variant, a, i + 1)

\* ifdformat: the elements, each by its Display, separated by ", "
numarray_to_string(variant, a) == JoinFrom(variant, a, 1)

\* impl Display for TagValue
Display(value) ==
    CASE value.variant = "Ascii" -> value.v
      [] value.variant = "Unknown" -> Str("<unknown blob>")
      [] value.variant = "Invalid" -> Str("Invalid")
      [] OTHER -> numarray_to_string(value.variant, value.v)

-----------------------------------------------------------------------------
(* types.rs: TagValue::to_i64, TagValue::to_f64 *)

\* Option
Some(x) == [some |-> TRUE, v |-> x]
None == [some |-> FALSE, v |-> <<>>]

\* Mutant: the index is taken as 1-based.
vec_get_from_one(v, index) ==
    IF index >= 1 /\ index <= Len(v) THEN Some(v[index]) ELSE None

\* v.get(index).cloned()
vec_get(v, index) == IF index < Len(v) THEN Some(v[index + 1]) ELSE None

\* an f64: an integer converted without loss, an f32 widened, the bits of an
\* f64, or the quotient of a rational's two terms
F64Int(n) == [kind |-> "int", n |-> n]
F64Wide(bits) == [kind |-> "f32", n |-> bits]
F64Raw(bits) == [kind |-> "f64", n |-> bits]

\* URational::value, IRational::value
Rational_value(r) == [kind |-> "quotient", n |-> <<r.numerator, r.denominator>>]

\* Option::map
map(o, kind) ==
    IF ~o.some THEN None
    ELSE CASE kind = "int" -> Some(F64Int(o.v))
           [] kind = "f32" -> Some(F64Wide(o.v))
           [] kind = "f64" -> Some(F64Raw(o.v))
           [] kind = "quotient" -> Some(Rational_value(o.v))
           [] kind = "i64" -> Some(o.v)

to_i64(self, index) ==
    CASE self.variant = "U8" -> map(vec_get(self.v, index), "i64")
      [] self.variant = "U16" -> map(vec_get(self.v, index), "i64")
      [] self.variant = "U32" -> map(vec_get(self.v, index), "i64")
      [] self.variant = "I8" -> map(vec_get(self.v, index), "i64")
      [] self.variant = "I16" -> map(vec_get(self.v, index), "i64")
      [] self.variant = "I32" -> map(vec_get(self.v, index), "i64")
      [] OTHER -> None

to_f64(self, index) ==
    CASE self.variant = "U8" -> map(vec_get(self.v, index), "int")
      [] self.variant = "U16" -> map(vec_get(self.v, index), "int")
      [] self.variant = "U32" -> map(vec_get(self.v, index), "int")
      [] self.variant = "I8" -> map(vec_get(self.v, index), "int")
      [] self.variant = "I16" -> map(vec_get(self.v, index), "int")
      [] self.variant = "I32" -> map(vec_get(self.v, index), "int")
      [] self.variant = "F32" -> map(vec_get(self.v, index), "f32")
      [] self.variant = "F64" -> map(vec_get(self.v, index), "f64")
      [] self.variant = "IRational" -> map(vec_get(self.v, index), "quotient")
      [] self.variant = "URational" -> map(vec_get(self.v, index), "quotient")
      [] OTHER -> None

-----------------------------------------------------------------------------
(* exif: the descriptor table; exifreadable: the formatting functions *)

Descriptor(tag, unit, format, min_count, max_count, more_readable) ==
    [tag |-> tag, unit |-> unit, format |-> format, min_count |-> min_count,
     max_count |-> max_count, more_readable |-> more_readable]

tag_to_exif(f) ==
    CASE f = 271 -> Descriptor("Make", "none", "Ascii", -1, -1, "strpass")
      [] f = 274 -> Descriptor("Orientation", "none", "U16", 1, 1, "orientation")
      [] f = 282 -> Descriptor("XResolution", "pixels per res unit", "URational", 1, 1, "rational_value")
      [] f = 296 -> Descriptor("ResolutionUnit", "none", "U16", 1, 1, "resolution_unit")
      [] f = 34665 -> Descriptor("ExifOffset", "byte offset", "U32", 1, 1, "strpass")
      [] f = 34853 -> Descriptor("GPSOffset", "byte offset", "U32", 1, 1, "strpass")
      [] f = 34855 -> Descriptor("ISOSpeedRatings", "ISO", "U16", 1, 3, "iso_speeds")
      [] OTHER -> Descriptor("UnknownToMe", "Unknown", "Unknown", -1, -1, "nop")

orientation(e) ==
    LET n == e.v[1]
    IN  CASE n = U(1) -> Str("Straight")
          [] n = U(3) -> Str("Upside down")
          [] n = U(6) -> Str("Rotated to left")
          [] n = U(8) -> Str("Rotated to right")
          [] n = U(9) -> Str("Undefined")
          [] OTHER -> <<Lit("Unknown ("), Num(n), Lit(")")>>

\* the quotient v[0].value() is kept as its two terms
rational_value(e) ==
    <<Lit("value of "), Num(e.v[1].numerator), Num(e.v[1].denominator)>>

resolution_unit(e) ==
    LET n == e.v[1]
    IN  CASE n = U(1) -> Str("Unitless")
          [] n = U(2) -> Str("in")
          [] n = U(3) -> Str("cm")
          [] OTHER -> <<Lit("Unknown ("), Num(n), Lit(")")>>

iso_speeds(e) ==
    IF Len(e.v) = 1 THEN <<Lit("ISO "), Num(e.v[1])>>
    ELSE IF Len(e.v) = 2
         THEN <<Lit("ISO "), Num(e.v[1]), Lit(" latitude "), Num(e.v[2])>>
         ELSE <<Lit("Unknown (")>> \o numarray_to_string("U16", e.v) \o <<Lit(")")>>

\* the default readable representation is pretty enough
strpass(e) == Display(e)

\* the formatting function has an arm for the variant of the value; it aborts
\* in its catch-all arm (panic!(INV)) otherwise
Formattable(name, e) ==
    CASE name \in {"orientation", "resolution_unit"} -> e.variant = "U16" /\ Len(e.v) >= 1
      [] name = "iso_speeds" -> e.variant = "U16"
      [] name = "rational_value" ->
            e.variant \in {"URational", "IRational"} /\ Len(e.v) >= 1
      [] OTHER -> TRUE

more_readable(name, e) ==
    CASE name = "orientation" -> orientation(e)
      [] name = "iso_speeds" -> iso_speeds(e)
      [] name = "rational_value" -> rational_value(e)
      [] name = "resolution_unit" -> resolution_unit(e)
      [] OTHER -> strpass(e)

-----------------------------------------------------------------------------
(* tiff.rs: parse_exif_entry *)

\* the two warnings of parse_exif_entry
FormatWarning(f, d) ==
    <<Lit("EXIF tag"), Num(U(f.tag)), Lit(d.tag), Lit("expected format"),
      Num(U(FormatCode(d.format))), Lit(d.format), Lit("found"),
      Num(U(FormatCode(f.format))), Lit(f.format)>>

CountWarning(f, d) ==
    <<Lit("EXIF tag"), Num(U(f.tag)), Lit(d.tag), Lit("format"),
      Num(U(FormatCode(d.format))), Lit("expected count"),
      Num(U(d.min_count)), Num(U(d.max_count)), Lit("found"), Num(f.count)>>

\* the internal assertion on the descriptor row (lines 36-44)
InternalError(f, d) ==
    \/ ExifTagCode(d.tag) % Base # f.tag
    \/ (d.min_count = -1 /\ d.format \notin {"Ascii", "Undefined", "Unknown"})
    \/ (d.min_count # -1 /\ d.format = "Ascii")

\* Mutant: the sign bit of the count is dropped instead of reinterpreted.
CountOutOfRange_low_31_bits(f, d) ==
    LET c == [hi |-> f.count.hi % 32768, lo |-> f.count.lo]
    IN  d.min_count # -1 /\ (WLt(c, U(d.min_count)) \/ WLt(U(d.max_count), c))

\* `count as i32` against the descriptor's range
CountOutOfRange(f, d) ==
    LET c == AsI32(f.count)
    IN  d.min_count # -1 /\ (WLt(c, U(d.min_count)) \/ WLt(U(d.max_count), c))

\* Mutant: a downgraded entry loses its typed value.
exif_entry_invalid_on_mismatch(f, w, value, d) ==
    LET e == [namespace |-> f.namespace, ifd |-> f, tag |-> "UnknownToMe",
              value |-> value, unit |-> "Unknown",
              value_more_readable |-> Display(value)]
        bad == [e EXCEPT !.value = TagValueInvalid(f),
                         !.value_more_readable = Display(TagValueInvalid(f))]
    IN  IF d.tag = "UnknownToMe" THEN [e |-> e, warnings |-> w, panic |-> FALSE]
        ELSE IF InternalError(f, d) THEN [e |-> e, warnings |-> w, panic |-> TRUE]
        ELSE IF d.format # f.format
             THEN [e |-> bad, warnings |-> Append(w, FormatWarning(f, d)), panic |-> FALSE]
        ELSE IF CountOutOfRange(f, d)
             THEN [e |-> bad, warnings |-> Append(w, CountWarning(f, d)), panic |-> FALSE]
        ELSE [e |-> [e EXCEPT !.tag = d.tag, !.unit = d.unit,
                              !.value_more_readable = more_readable(d.more_readable, value)],
              warnings |-> w, panic |-> FALSE]

\* Mutant: the formatting function is applied to a downgraded entry too.
exif_entry_formats_downgraded(f, w, value, d) ==
    LET e == [namespace |-> f.namespace, ifd |-> f, tag |-> "UnknownToMe",
              value |-> value, unit |-> "Unknown",
              value_more_readable |-> Display(value)]
        pretty == IF Formattable(d.more_readable, value) /\ Len(value.v) > 0
                  THEN [e EXCEPT !.value_more_readable =
                                     more_readable(d.more_readable, value)]
                  ELSE e
    IN  IF d.tag = "UnknownToMe" THEN [e |-> e, warnings |-> w, panic |-> FALSE]
        ELSE IF InternalError(f, d) THEN [e |-> e, warnings |-> w, panic |-> TRUE]
        ELSE IF d.format # f.format
             THEN [e |-> pretty, warnings |-> Append(w, FormatWarning(f, d)), panic |-> FALSE]
        ELSE IF CountOutOfRange(f, d)
             THEN [e |-> pretty, warnings |-> Append(w, CountWarning(f, d)), panic |-> FALSE]
        ELSE [e |-> [pretty EXCEPT !.tag = d.tag, !.unit = d.unit],
              warnings |-> w, panic |-> FALSE]

\* Mutant: the count is tested, and warned about, after a format warning too.
exif_entry_both_warnings(f, w, value, d) ==
    LET e == [namespace |-> f.namespace, ifd |-> f, tag |-> "UnknownToMe",
              value |-> value, unit |-> "Unknown",
              value_more_readable |-> Display(value)]
        w1 == IF d.format # f.format THEN Append(w, FormatWarning(f, d)) ELSE w
        w2 == IF CountOutOfRange(f, d) THEN Append(w1, CountWarning(f, d)) ELSE w1
    IN  IF d.tag = "UnknownToMe" THEN [e |-> e, warnings |-> w, panic |-> FALSE]
        ELSE IF InternalError(f, d) THEN [e |-> e, warnings |-> w, panic |-> TRUE]
        ELSE IF w2 # w THEN [e |-> e, warnings |-> w2, panic |-> FALSE]
        ELSE [e |-> [e EXCEPT !.tag = d.tag, !.unit = d.unit,
                              !.value_more_readable = more_readable(d.more_readable, value)],
              warnings |-> w, panic |-> FALSE]

\* parse_exif_entry from line 16 on, given the value of line 14 and the
\* descriptor row of line 25: [e, the warnings after the call, panic]
exif_entry(f, w, value, d) ==
    LET e == [namespace |-> f.namespace, ifd |-> f, tag |-> "UnknownToMe",
              value |-> value, unit |-> "Unknown",
              value_more_readable |-> Display(value)]
    IN  IF d.tag = "UnknownToMe" THEN [e |-> e, warnings |-> w, panic |-> FALSE]
        ELSE IF InternalError(f, d) THEN [e |-> e, warnings |-> w, panic |-> TRUE]
        ELSE IF d.format # f.format
             THEN [e |-> e, warnings |-> Append(w, FormatWarning(f, d)), panic |-> FALSE]
        ELSE IF CountOutOfRange(f, d)
             THEN [e |-> e, warnings |-> Append(w, CountWarning(f, d)), panic |-> FALSE]
        ELSE IF ~Formattable(d.more_readable, value)
             THEN [e |-> e, warnings |-> w, panic |-> TRUE]
        ELSE [e |-> [e EXCEPT !.tag = d.tag, !.unit = d.unit,
                              !.value_more_readable = more_readable(d.more_readable, value)],
              warnings |-> w, panic |-> FALSE]

parse_exif_entry(f, w) == exif_entry(f, w, tag_value_new(f), tag_to_exif(f.tag))

-----------------------------------------------------------------------------
(* tiff.rs: parse_ifd *)

RECURSIVE parse_ifd_entries(_, _, _, _, _)
parse_ifd_entries(l, count, c, i, entries) ==
    IF i >= count THEN [some |-> TRUE, entries |-> entries]
    ELSE LET o == i * 12
             tag == get(c, U(o), U(o + 2))
             format == get(c, U(o + 2), U(o + 4))
             cnt == get(c, U(o + 4), U(o + 8))
             data == get(c, U(o + 8), U(o + 12))
         IN  IF ~tag.some \/ ~format.some \/ ~cnt.some \/ ~data.some
             THEN [some |-> FALSE, entries |-> <<>>]
             ELSE parse_ifd_entries(l, count, c, i + 1,
                      Append(entries,
                             IfdEntry(read_u16(l, tag.v),
                                      ifdformat_new(read_u16(l, format.v)),
                                      read_u32(l, cnt.v), data.v, l)))

\* Mutant: the next-directory field is read for a sub-directory too.
parse_ifd_reads_next(subifd, l, count, c) ==
    LET r == parse_ifd_entries(l, count, c, 0, <<>>)
    IN  IF ~r.some THEN [kind |-> "None", entries |-> <<>>, next_ifd |-> U(0)]
        ELSE IF count * 12 > Len(c) \/ Len(c) - count * 12 < 4
             THEN [kind |-> "Panic", entries |-> <<>>, next_ifd |-> U(0)]
        ELSE [kind |-> "Some", entries |-> r.entries,
              next_ifd |-> read_u32(l, SubSeq(c, count * 12 + 1, Len(c)))]

\* parse_ifd: kind is "Some", "None", or "Panic" when `contents[count * 12..]`
\* or the read_u32 of it indexes past the slice
parse_ifd(subifd, l, count, c) ==
    LET r == parse_ifd_entries(l, count, c, 0, <<>>)
    IN  IF ~r.some THEN [kind |-> "None", entries |-> <<>>, next_ifd |-> U(0)]
        ELSE IF subifd THEN [kind |-> "Some", entries |-> r.entries, next_ifd |-> U(0)]
        ELSE IF count * 12 > Len(c) \/ Len(c) - count * 12 < 4
             THEN [kind |-> "Panic", entries |-> <<>>, next_ifd |-> U(0)]
        ELSE [kind |-> "Some", entries |-> r.entries,
              next_ifd |-> read_u32(l, SubSeq(c, count * 12 + 1, Len(c)))]

-----------------------------------------------------------------------------
(* tiff.rs: parse_exif_ifd *)

Ok == [kind |-> "Ok", msg |-> <<>>]
Err(kind, msg) == [kind |-> kind, msg |-> msg]
IfdTruncated == Err("IfdTruncated", <<>>)
ExifIfdTruncated(s) == Err("ExifIfdTruncated", Str(s))

\* what parse_exif_ifd hands back: its result, the accumulator and the
\* warnings after the call, the usize results computed, and whether it aborted
Walked(res, entries, w, a, panic) ==
    [res |-> res, exif_entries |-> entries, warnings |-> w, arith |-> a,
     panic |-> panic]

\* Mutant: a decoded entry is put at the front of the accumulator.
push_entry_front(acc, cd, pe) ==
    IF ~cd.ret THEN [acc EXCEPT !.arith = @ \cup cd.arith]
    ELSE Walked(Ok, <<pe.e>> \o acc.exif_entries, pe.warnings,
                acc.arith \cup cd.arith, pe.panic)

\* Mutant: an entry is decoded and pushed whether or not its payload resolved.
push_entry_keep(acc, cd, pe) ==
    Walked(Ok, Append(acc.exif_entries, pe.e), pe.warnings,
           acc.arith \cup cd.arith, pe.panic)

\* one iteration of the loop of lines 147-154 on the outcome of copy_data
push_entry(acc, cd, pe) ==
    IF ~cd.ret THEN [acc EXCEPT !.arith = @ \cup cd.arith]
    ELSE Walked(Ok, Append(acc.exif_entries, pe.e), pe.warnings,
                acc.arith \cup cd.arith, pe.panic)

\* the loop of lines 147-154 from entry i on
RECURSIVE walk_entries(_, _, _, _)
walk_entries(es, c, i, acc) ==
    IF i > Len(es) \/ acc.panic THEN acc
    ELSE walk_entries(es, c, i + 1,
             push_entry(acc, copy_data(es[i], c),
                        parse_exif_entry(copy_data(es[i], c).self, acc.warnings)))

\* Mutant: the listing length is compared without the offset it starts at.
listing_truncated_no_offset(c, off2, ifd_length) == WLt(U(Len(c)), ifd_length)

\* the test of line 136
listing_truncated(c, off2, ifd_length) == WLt(U(Len(c)), WAdd(off2, ifd_length))

\* lines 136-156, the count of line 127 read
walk_listing(l, c, off2, count, entries, w) ==
    LET ifd_length == U(count * 12)
        end == WAdd(off2, ifd_length)
        ifd_content == get(c, off2, end)
        parsed == parse_ifd(TRUE, l, count, ifd_content.v)
        a == {off2, ifd_length, end}
    IN  IF listing_truncated(c, off2, ifd_length)
        THEN Walked(ExifIfdTruncated("Truncated at dir listing"), entries, w, a, FALSE)
        ELSE IF ~ifd_content.some THEN Walked(IfdTruncated, entries, w, a, FALSE)
        ELSE IF parsed.kind = "None" THEN Walked(IfdTruncated, entries, w, a, FALSE)
        ELSE IF parsed.kind = "Panic" THEN Walked(Ok, entries, w, a, TRUE)
        ELSE walk_entries(parsed.entries, c, 1, Walked(Ok, entries, w, a, FALSE))

parse_exif_ifd(l, c, ioffset, entries, w) ==
    LET off2 == WAdd(ioffset, U(2))
        head == get(c, ioffset, off2)
    IN  IF WLt(U(Len(c)), off2)
        THEN Walked(ExifIfdTruncated("Truncated at dir entry count"), entries, w,
                    {off2}, FALSE)
        ELSE IF ~head.some THEN Walked(IfdTruncated, entries, w, {off2}, FALSE)
        ELSE walk_listing(l, c, off2, read_u16(l, head.v), entries, w)

-----------------------------------------------------------------------------
(* exifpost: the postprocessing collaborator *)

\* the first entry of the list with the given tag, 0 if there is none
RECURSIVE other_tag(_, _, _)
other_tag(tag, entries, i) ==
    IF i > Len(entries) THEN 0
    ELSE IF entries[i].tag = tag THEN i
    ELSE other_tag(tag, entries, i + 1)

\* Rewrites the readable string of one entry from its siblings: a resolution
\* gets the readable string of the resolution unit appended.
exif_postprocessing(e, entries) ==
    LET u == other_tag("ResolutionUnit", entries, 1)
    IN  IF e.tag = "XResolution" /\ u # 0
        THEN [e EXCEPT !.value_more_readable =
                  @ \o <<Lit(" pixels per ")>> \o entries[u].value_more_readable]
        ELSE e

-----------------------------------------------------------------------------
(* tiff.rs: parse_tiff and parse_ifds, step by step *)

\* `&s[a..b]`: a range past the slice aborts
Slice(s, a, b) ==
    IF a <= b /\ b <= Len(s) THEN [ok |-> TRUE, v |-> SubSeq(s, a + 1, b)]
    ELSE [ok |-> FALSE, v |-> <<>>]

Pending == [status |-> "Pending", err |-> Ok, entries |-> <<>>]
Panic == [status |-> "Panic", err |-> Ok, entries |-> <<>>]
Failed(e) == [status |-> "Err", err |-> e, entries |-> <<>>]
Returned(entries) == [status |-> "Ok", err |-> Ok, entries |-> entries]

TiffTruncated == Err("TiffTruncated", <<>>)
TiffBadPreamble(b0, b1, b2, b3) ==
    Err("TiffBadPreamble",
        <<Lit("Preamble is ")>> \o Hex(b0) \o <<Lit(" ")>> \o Hex(b1)
            \o <<Lit(" ")>> \o Hex(b2) \o <<Lit(" ")>> \o Hex(b3))

\* what the first steps of parse_tiff hand on: Pending with the byte order and
\* the root offset, or the result parse_tiff ends with
Preambled(res, l, off) == [res |-> res, le |-> l, offset |-> off]

\* Mutant: the order marker alone selects little-endian.
is_le_preamble_marker(c) == c[1] = 73 /\ c[2] = 73

\* the tests of lines 231 and 234
is_le_preamble(c) == c[1] = 73 /\ c[2] = 73 /\ c[3] = 42 /\ c[4] = 0
is_be_preamble(c) == c[1] = 77 /\ c[2] = 77 /\ c[3] = 0 /\ c[4] = 42

\* line 244 in the byte order chosen
root_offset(l, word) ==
    IF word.ok THEN Preambled(Pending, l, read_u32(l, word.v))
    ELSE Preambled(Panic, FALSE, U(0))

\* lines 231-244; contents[0..3] and contents[4..8] abort on a shorter slice
read_preamble(c) ==
    IF Len(c) < 4 THEN Preambled(Panic, FALSE, U(0))
    ELSE IF is_le_preamble(c) THEN root_offset(TRUE, Slice(c, 4, 8))
    ELSE IF is_be_preamble(c) THEN root_offset(FALSE, Slice(c, 4, 8))
    ELSE Preambled(Failed(TiffBadPreamble(c[1], c[2], c[3], c[4])), FALSE, U(0))

\* Mutant: the length test covers the preamble only.
parse_tiff_len4(c) ==
    IF Len(c) < 4 THEN Preambled(Failed(TiffTruncated), FALSE, U(0))
    ELSE read_preamble(c)

\* parse_tiff up to the call of parse_ifds
parse_tiff(c) ==
    IF Len(c) < 8 THEN Preambled(Failed(TiffTruncated), FALSE, U(0))
    ELSE read_preamble(c)

\* what the second pass hands on: Pending and the raw root entries, or the
\* result parse_ifds ends with
Rescan(res, entries, a) == [res |-> res, ifd |-> entries, arith |-> a]

\* Mutant: the second pass takes the listing without the next-directory field.
second_listing_no_trailer(l, c, off2, count) ==
    LET ifd_length == U(count * 12)
        end == WAdd(off2, ifd_length)
        ifd_content == get(c, off2, end)
        parsed == parse_ifd(FALSE, l, count, ifd_content.v)
        a == {off2, ifd_length, end}
    IN  IF ~ifd_content.some THEN Rescan(Failed(IfdTruncated), <<>>, a)
        ELSE IF parsed.kind = "None" THEN Rescan(Failed(IfdTruncated), <<>>, a)
        ELSE IF parsed.kind = "Panic" THEN Rescan(Panic, <<>>, a)
        ELSE Rescan(Pending, parsed.entries, a)

\* lines 185-191, the count of line 179 read
second_listing(l, c, off2, count) ==
    LET ifd_length == U(count * 12 + 4)
        end == WAdd(off2, ifd_length)
        ifd_content == get(c, off2, end)
        parsed == parse_ifd(FALSE, l, count, ifd_content.v)
        a == {off2, ifd_length, end}
    IN  IF ~ifd_content.some THEN Rescan(Failed(IfdTruncated), <<>>, a)
        ELSE IF parsed.kind = "None" THEN Rescan(Failed(IfdTruncated), <<>>, a)
        ELSE IF parsed.kind = "Panic" THEN Rescan(Panic, <<>>, a)
        ELSE Rescan(Pending, parsed.entries, a)

\* parse_ifds, lines 179-191: the raw root entries of the second pass
second_pass(l, c, ifd0_offset) ==
    LET off2 == WAdd(ifd0_offset, U(2))
        head == get(c, ifd0_offset, off2)
    IN  IF ~head.some THEN Rescan(Failed(IfdTruncated), <<>>, {off2})
        ELSE second_listing(l, c, off2, read_u16(l, head.v))

\* Mutant: the GPS pointer is not looked for.
IsPointer_exif_only(e) == e.tag = ExifTagCode("ExifOffset") % Base

\* the test of lines 194-195
IsPointer(e) ==
    e.tag = ExifTagCode("ExifOffset") % Base \/ e.tag = ExifTagCode("GPSOffset") % Base

\* one record of the history of directory walks
Walk(at, r, before) ==
    [offset |-> at, res |-> r.res, first |-> Len(before) + 1,
     last |-> Len(r.exif_entries), panic |-> r.panic]

\* the caller's side of a call of parse_exif_ifd at offset `at`: an abort or
\* an Err ends parse_ifds, an Ok goes on at `next`
Called(at, r, next, i) ==
    /\ exif_entries' = r.exif_entries
    /\ warnings' = r.warnings
    /\ arith' = arith \cup r.arith
    /\ walks' = Append(walks, Walk(at, r, exif_entries))
    /\ result' = IF r.panic THEN Panic
                 ELSE IF r.res # Ok THEN Failed(r.res) ELSE result
    /\ pc' = IF r.panic \/ r.res # Ok THEN "done" ELSE next
    /\ idx' = IF r.panic \/ r.res # Ok THEN idx ELSE i

\* the first steps of parse_tiff, lines 226-246
Entered(r) ==
    /\ le' = r.le
    /\ offset' = r.offset
    /\ result' = r.res
    /\ pc' = IF r.res.status = "Pending" THEN "parse_ifds" ELSE "done"

ParseTiff ==
    /\ pc = "parse_tiff"
    /\ Entered(parse_tiff(contents))
    /\ UNCHANGED <<contents, warnings, exif_entries, ifd, idx, exif_entries_copy,
                   pidx, walks, arith, posts, entry, ret, args, out>>

\* parse_ifds, lines 166-174: the walk of the root directory
Ifd0 ==
    /\ pc = "parse_ifds"
    /\ Called(offset, parse_exif_ifd(le, contents, offset, exif_entries, warnings),
              "second_pass", idx)
    /\ UNCHANGED <<contents, le, offset, ifd, exif_entries_copy, pidx,
                   posts, entry, ret, args, out>>

\* parse_ifds, lines 179-191
Rescanned(r) ==
    /\ ifd' = r.ifd
    /\ arith' = arith \cup r.arith
    /\ result' = r.res
    /\ pc' = IF r.res.status = "Pending" THEN "scan" ELSE "done"

SecondPass ==
    /\ pc = "second_pass"
    /\ Rescanned(second_pass(le, contents, offset))
    /\ idx' = 1
    /\ UNCHANGED <<contents, warnings, le, offset, exif_entries, exif_entries_copy,
                   pidx, walks, posts, entry, ret, args, out>>

\* Mutant: the scan stays on a pointer record after its directory was walked.
Followed_again(e, exif_offset) ==
    IF ~IsPointer(e)
    THEN /\ idx' = idx + 1
         /\ UNCHANGED <<pc, result, exif_entries, warnings, walks, arith>>
    ELSE IF WLt(U(Len(contents)), exif_offset)
    THEN /\ result' = Failed(ExifIfdTruncated("Exif SubIFD goes past EOF"))
         /\ pc' = "done"
         /\ UNCHANGED <<idx, exif_entries, warnings, walks, arith>>
    ELSE Called(exif_offset,
                parse_exif_ifd(le, contents, exif_offset, exif_entries, warnings),
                pc, idx)

\* Mutant: a pointer to a directory that was walked already is not followed.
Followed_once(e, exif_offset) ==
    IF ~IsPointer(e) \/ (\E i \in 1..Len(walks) : walks[i].offset = exif_offset)
    THEN /\ idx' = idx + 1
         /\ UNCHANGED <<pc, result, exif_entries, warnings, walks, arith>>
    ELSE IF WLt(U(Len(contents)), exif_offset)
    THEN /\ result' = Failed(ExifIfdTruncated("Exif SubIFD goes past EOF"))
         /\ pc' = "done"
         /\ UNCHANGED <<idx, exif_entries, warnings, walks, arith>>
    ELSE Called(exif_offset,
                parse_exif_ifd(le, contents, exif_offset, exif_entries, warnings),
                pc, idx + 1)

\* parse_ifds, lines 193-212: one iteration of the pointer scan
Followed(e, exif_offset) ==
    IF ~IsPointer(e)
    THEN /\ idx' = idx + 1
         /\ UNCHANGED <<pc, result, exif_entries, warnings, walks, arith>>
    ELSE IF WLt(U(Len(contents)), exif_offset)
    THEN /\ result' = Failed(ExifIfdTruncated("Exif SubIFD goes past EOF"))
         /\ pc' = "done"
         /\ UNCHANGED <<idx, exif_entries, warnings, walks, arith>>
    ELSE Called(exif_offset,
                parse_exif_ifd(le, contents, exif_offset, exif_entries, warnings),
                pc, idx + 1)

Scan ==
    /\ pc = "scan"
    /\ idx <= Len(ifd)
    /\ Followed(ifd[idx], data_as_offset(ifd[idx]))
    /\ UNCHANGED <<contents, le, offset, ifd, exif_entries_copy, pidx, posts,
                   entry, ret, args, out>>

\* parse_ifds, line 216: the copy handed to postprocessing
Snapshot ==
    /\ pc = "scan"
    /\ idx > Len(ifd)
    /\ exif_entries_copy' = exif_entries
    /\ pidx' = 1
    /\ pc' = "postprocessing"
    /\ UNCHANGED <<contents, warnings, le, offset, exif_entries, ifd, idx, result,
                   walks, arith, posts, entry, ret, args, out>>

\* Mutant: postprocessing reads the siblings from the list it is rewriting.
Postprocess_live ==
    /\ pc = "postprocessing"
    /\ pidx <= Len(exif_entries)
    /\ exif_entries' = [exif_entries EXCEPT
                            ![pidx] = exif_postprocessing(@, exif_entries)]
    /\ posts' = Append(posts, [index |-> pidx, entries |-> exif_entries])
    /\ pidx' = pidx + 1
    /\ UNCHANGED <<contents, warnings, pc, le, offset, ifd, idx, exif_entries_copy,
                   result, walks, arith, entry, ret, args, out>>

\* Mutant: the postprocessing loop steps over every other entry.
Postprocess_skipping ==
    /\ pc = "postprocessing"
    /\ pidx <= Len(exif_entries)
    /\ exif_entries' = [exif_entries EXCEPT
                            ![pidx] = exif_postprocessing(@, exif_entries_copy)]
    /\ posts' = Append(posts, [index |-> pidx, entries |-> exif_entries_copy])
    /\ pidx' = pidx + 2
    /\ UNCHANGED <<contents, warnings, pc, le, offset, ifd, idx, exif_entries_copy,
                   result, walks, arith, entry, ret, args, out>>

\* parse_ifds, lines 218-220: one iteration of the postprocessing loop
Postprocess ==
    /\ pc = "postprocessing"
    /\ pidx <= Len(exif_entries)
    /\ exif_entries' = [exif_entries EXCEPT
                            ![pidx] = exif_postprocessing(@, exif_entries_copy)]
    /\ posts' = Append(posts, [index |-> pidx, entries |-> exif_entries_copy])
    /\ pidx' = pidx + 1
    /\ UNCHANGED <<contents, warnings, pc, le, offset, ifd, idx, exif_entries_copy,
                   result, walks, arith, entry, ret, args, out>>

\* parse_ifds, line 222
Return ==
    /\ pc = "postprocessing"
    /\ pidx > Len(exif_entries)
    /\ result' = Returned(exif_entries)
    /\ pc' = "done"
    /\ UNCHANGED <<contents, warnings, le, offset, exif_entries, ifd, idx,
                   exif_entries_copy, pidx, walks, arith, posts, entry, ret, args, out>>

-----------------------------------------------------------------------------
(* The inputs: TIFF buffers built field by field, and every cut of them *)

Enc16(l, n) == IF l THEN <<n % 256, n \div 256>> ELSE <<n \div 256, n % 256>>
Enc32(l, w) ==
    IF l THEN Enc16(l, w.lo) \o Enc16(l, w.hi) ELSE Enc16(l, w.hi) \o Enc16(l, w.lo)

\* one 12-byte directory record
Raw(l, tag, format, count, slot) ==
    Enc16(l, tag) \o Enc16(l, format) \o Enc32(l, count) \o slot

Preamble(l) == IF l THEN <<73, 73, 42, 0>> ELSE <<77, 77, 0, 42>>

\* The catalogue of directory entries.  S is the offset of the sub-directory,
\* D the offset of the data area, E the length of the whole buffer.
RootKinds == {"orient", "orient_ascii", "orient_cnt2", "unknown", "xres", "far",
              "exifptr", "gpsptr_far"}

Record(k, l, S, D, E) ==
    CASE k = "orient" -> Raw(l, 274, 3, U(1), Enc16(l, 6) \o <<0, 0>>)
      [] k = "orient_ascii" -> Raw(l, 274, 2, U(2), <<65, 0, 0, 0>>)
      [] k = "orient_cnt2" -> Raw(l, 274, 3, U(2), Enc16(l, 1) \o Enc16(l, 3))
      [] k = "unknown" -> Raw(l, 48879, 1, U(3), <<1, 2, 3, 0>>)
      [] k = "xres" -> Raw(l, 282, 5, U(1), Enc32(l, U(D)))
      [] k = "resunit" -> Raw(l, 296, 3, U(1), Enc16(l, 2) \o <<0, 0>>)
      [] k = "far" -> Raw(l, 274, 5, U(1), <<255, 255, 255, 255>>)
      [] k = "exifptr" -> Raw(l, 34665, 4, U(1), Enc32(l, U(S)))
      [] k = "gpsptr_far" -> Raw(l, 34853, 4, U(1), Enc32(l, U(E + 1)))
      [] k = "gpsptr_root" -> Raw(l, 34853, 4, U(1), Enc32(l, U(8)))
      [] k = "exifptr_u16" -> Raw(l, 34665, 3, U(1), Enc32(l, U(S)))
      [] k = "exifptr_wide" -> Raw(l, 34665, 5, U(1), Enc32(l, U(S)))
      [] k = "exifptr_dropped" ->
             Raw(l, 34665, 5, [hi |-> 4096, lo |-> 0], Enc32(l, U(S)))

RECURSIVE Records(_, _, _, _, _, _)
Records(ks, i, l, S, D, E) ==
    IF i > Len(ks) THEN <<>>
    ELSE Record(ks[i], l, S, D, E) \o Records(ks, i + 1, l, S, D, E)

DataArea == <<0, 0, 0, 72, 1, 0, 0, 0>>

RootDirs == UNION {[1..n -> RootKinds] : n \in 0..MaxRoot}
SubDirs == {<<"resunit">>, <<"exifptr", "orient_ascii">>, <<"far">>}

\* Root directories with pointers of other shapes: a GPS pointer to the root
\* directory itself, and Exif pointers declared as one U16 (downgraded with a
\* warning), as one URational (the slot is then also the offset of the
\* payload) and as 2^28 URationals (dropped, the payload is not in the buffer)
PointerRoots ==
    {<<"exifptr", "gpsptr_root">>, <<"gpsptr_root", "orient", "exifptr">>,
     <<"exifptr_u16", "orient">>, <<"exifptr_wide">>, <<"exifptr_dropped", "unknown">>,
     <<"unknown", "exifptr", "orient", "exifptr">>}

\* header, root directory at 8 with its next-directory field, sub-directory,
\* data area
Full(l, root, sub) ==
    LET S == 14 + 12 * Len(root)
        D == S + 2 + 12 * Len(sub)
        E == D + Len(DataArea)
    IN  Preamble(l) \o Enc32(l, U(8))
        \o Enc16(l, Len(root)) \o Records(root, 1, l, S, D, E) \o <<0, 0, 0, 0>>
        \o Enc16(l, Len(sub)) \o Records(sub, 1, l, S, D, E)
        \o DataArea

\* the lengths a buffer is cut to: the whole header, and around each boundary
Cuts(root, sub) ==
    LET R == 10 + 12 * Len(root)
        S == R + 4
        D == S + 2 + 12 * Len(sub)
        E == D + Len(DataArea)
    IN  (0..10) \cup {R - 1, R, R + 3, S, S + 1, S + 2, D - 1, D, E - 1, E}

Take(s, n) == SubSeq(s, 1, n)

WalkInputs ==
    UNION {{Take(Full(p[1], p[2], p[3]), n) : n \in Cuts(p[2], p[3])} :
               p \in BOOLEAN \X (RootDirs \cup PointerRoots) \X SubDirs}

\* other first four bytes, among them each order marker with the version
\* marker of the other order
BadPreambles == {<<73, 73, 0, 42>>, <<77, 77, 42, 0>>, <<73, 77, 42, 0>>,
                 <<77, 73, 0, 42>>, <<0, 0, 0, 0>>, <<73, 73, 42, 1>>,
                 <<255, 216, 255, 225>>}

PreambleInputs ==
    UNION {{Take(h \o <<8, 0, 0, 8, 0, 0, 0, 0, 0, 0>>, n) : n \in 0..14} :
               h \in BadPreambles}

\* an empty root directory of 6 bytes at 8, and root offsets around it
RootOffsets == {U(0), U(8), U(9), U(10), U(12), U(13), U(14), U(15),
                [hi |-> 32768, lo |-> 0], [hi |-> 65535, lo |-> 65534],
                [hi |-> 65535, lo |-> 65535]}

OffsetInputs ==
    {Preamble(p[1]) \o Enc32(p[1], p[2]) \o <<0, 0, 0, 0, 0, 0>> :
        p \in BOOLEAN \X RootOffsets}

Inputs == WalkInputs \cup PreambleInputs \cup OffsetInputs

NoEntry == IfdEntry(0, "Unknown", U(0), <<0, 0, 0, 0>>, FALSE)

\* no function is called on its own
NoCall == [fn |-> "none"]

Init ==
    /\ contents \in Inputs
    /\ warnings = <<>>
    /\ pc = "parse_tiff"
    /\ le = FALSE
    /\ offset = U(0)
    /\ exif_entries = <<>>
    /\ ifd = <<>>
    /\ idx = 1
    /\ exif_entries_copy = <<>>
    /\ pidx = 1
    /\ result = Pending
    /\ walks = <<>>
    /\ arith = {}
    /\ posts = <<>>
    /\ entry = NoEntry
    /\ ret = FALSE
    /\ args = NoCall
    /\ out = NoCall

Next ==
    \/ ParseTiff
    \/ Ifd0
    \/ SecondPass
    \/ Scan
    \/ Snapshot
    \/ Postprocess
    \/ Return

Spec == Init /\ [][Next]_vars

-----------------------------------------------------------------------------
(* copy_data on its own: every format, counts around the inline limit *)

CopyCounts == {U(n) : n \in 0..MaxCount}
                  \cup {[hi |-> 32768, lo |-> 1], [hi |-> 65535, lo |-> 65535]}

CopySlots == {<<0, 0, 0, 0>>, <<0, 0, 0, 6>>, <<6, 0, 0, 0>>, <<0, 0, 0, 9>>,
              <<1, 2, 3, 4>>, <<255, 255, 255, 255>>}

CopyBuffers == {<<>>, <<10, 11, 12, 13, 14, 15, 16, 17, 18, 19, 20, 21, 22, 23>>,
                <<30, 31, 32, 33, 34, 35, 36, 37, 38, 39>>}

CopyEntries ==
    {IfdEntry(48879, p[1], p[2], p[3], p[4]) :
        p \in IfdFormat \X CopyCounts \X CopySlots \X BOOLEAN}

InitCopy ==
    /\ contents \in CopyBuffers
    /\ entry \in CopyEntries
    /\ pc = "copy_data"
    /\ ret = FALSE
    /\ warnings = <<>>
    /\ le = FALSE
    /\ offset = U(0)
    /\ exif_entries = <<>>
    /\ ifd = <<>>
    /\ idx = 1
    /\ exif_entries_copy = <<>>
    /\ pidx = 1
    /\ result = Pending
    /\ walks = <<>>
    /\ arith = {}
    /\ posts = <<>>
    /\ args = NoCall
    /\ out = NoCall

CopyData ==
    /\ pc = "copy_data"
    /\ LET r == copy_data(entry, contents)
       IN  /\ entry' = r.self
           /\ ret' = r.ret
           /\ arith' = r.arith
    /\ pc' = "copied"
    /\ UNCHANGED <<contents, warnings, le, offset, exif_entries, ifd, idx,
                   exif_entries_copy, pidx, result, walks, posts, args, out>>

\* a second call on the same entry with the same buffer
CopyAgain ==
    /\ pc = "copied"
    /\ LET r == copy_data(entry, contents)
       IN  /\ entry' = r.self
           /\ ret' = r.ret
           /\ arith' = r.arith
    /\ pc' = "copied_twice"
    /\ UNCHANGED <<contents, warnings, le, offset, exif_entries, ifd, idx,
                   exif_entries_copy, pidx, result, walks, posts, args, out>>

NextCopy == CopyData \/ CopyAgain

SpecCopy == InitCopy /\ [][NextCopy]_vars

-----------------------------------------------------------------------------
(* parse_ifd on its own: listings of up to MaxIfdCount records, cut anywhere *)

MaxIfdCount == 2

\* two records (the second with a format code outside 1..12), the 4 bytes of a
\* next-directory field and one byte more
IfdListing(l) ==
    Raw(l, 274, 3, U(1), Enc16(l, 6) \o <<0, 0>>)
        \o Raw(l, 48879, 13, [hi |-> 32768, lo |-> 2], <<1, 2, 3, 4>>)
        \o Enc32(l, [hi |-> 1, lo |-> 26]) \o <<9>>

IfdCalls ==
    {[fn |-> "parse_ifd", subifd |-> p[1], le |-> p[2], count |-> p[3],
      contents |-> Take(IfdListing(p[2]), p[4])] :
        p \in BOOLEAN \X BOOLEAN \X (0..MaxIfdCount) \X (0..29)}

InitIfd ==
    /\ args \in IfdCalls
    /\ out = NoCall
    /\ pc = "parse_ifd"
    /\ contents = <<>>
    /\ entry = NoEntry
    /\ ret = FALSE
    /\ warnings = <<>>
    /\ le = FALSE
    /\ offset = U(0)
    /\ exif_entries = <<>>
    /\ ifd = <<>>
    /\ idx = 1
    /\ exif_entries_copy = <<>>
    /\ pidx = 1
    /\ result = Pending
    /\ walks = <<>>
    /\ arith = {}
    /\ posts = <<>>

ParseIfd ==
    /\ pc = "parse_ifd"
    /\ out' = parse_ifd(args.subifd, args.le, args.count, args.contents)
    /\ pc' = "returned"
    /\ UNCHANGED <<contents, warnings, le, offset, exif_entries, ifd, idx,
                   exif_entries_copy, pidx, result, walks, arith, posts, entry,
                   ret, args>>

NextIfd == ParseIfd

SpecIfd == InitIfd /\ [][NextIfd]_vars

-----------------------------------------------------------------------------
(* to_i64 and to_f64 on their own: values of every variant, indexes around   *)
(* the number of elements                                                    *)

MaxElems == 2
MaxIndex == 3

\* payload bytes: elements with the top bit set, and enough for 8-byte elements
ValueBytes == <<255, 254, 1, 128, 0, 0, 0, 72, 128, 0, 0, 1, 0, 0, 0, 3,
                1, 2, 3, 4, 5, 6, 7, 8, 9, 10, 11, 12, 13, 14, 15, 16>>

\* the values decoded from entries of every format; with no payload bytes an
\* entry of 1 element or more decodes to Invalid
Values ==
    {tag_value_new([IfdEntry(48879, p[1], U(p[2]), <<255, 254, 1, 128>>, p[3])
                        EXCEPT !.data = p[4]]) :
        p \in IfdFormat \X (0..MaxElems) \X BOOLEAN \X {ValueBytes, <<>>}}

ValueCalls ==
    {[fn |-> "to_number", value |-> p[1], index |-> p[2]] :
        p \in Values \X (0..MaxIndex)}

InitValue ==
    /\ args \in ValueCalls
    /\ out = NoCall
    /\ pc = "to_number"
    /\ contents = <<>>
    /\ entry = NoEntry
    /\ ret = FALSE
    /\ warnings = <<>>
    /\ le = FALSE
    /\ offset = U(0)
    /\ exif_entries = <<>>
    /\ ifd = <<>>
    /\ idx = 1
    /\ exif_entries_copy = <<>>
    /\ pidx = 1
    /\ result = Pending
    /\ walks = <<>>
    /\ arith = {}
    /\ posts = <<>>

ToNumber ==
    /\ pc = "to_number"
    /\ out' = [i64 |-> to_i64(args.value, args.index),
               f64 |-> to_f64(args.value, args.index)]
    /\ pc' = "returned"
    /\ UNCHANGED <<contents, warnings, le, offset, exif_entries, ifd, idx,
                   exif_entries_copy, pidx, result, walks, arith, posts, entry,
                   ret, args>>

NextValue == ToNumber

SpecValue == InitValue /\ [][NextValue]_vars

-----------------------------------------------------------------------------
(* parse_exif_entry on its own: entries with their payload resolved *)

MaxEntryCount == 4

EntryBuffer == <<0, 0, 0, 0, 0, 6, 0, 8, 0, 0, 0, 72, 0, 0, 0, 1,
                 65, 66, 67, 0, 1, 0, 0, 0>>

EntryTags == {271, 274, 282, 296, 34665, 34855, 48879}
EntryFormats == {"U8", "Ascii", "U16", "U32", "URational"}

\* copy_data on the raw entries; the entries it fails on are not decoded
EntryCopies ==
    {copy_data(IfdEntry(p[1], p[2], U(p[3]), p[5], p[4]), EntryBuffer) :
        p \in EntryTags \X EntryFormats \X (0..MaxEntryCount) \X BOOLEAN
                 \X {<<0, 0, 0, 4>>, <<4, 0, 0, 0>>, <<6, 0, 0, 0>>, <<0, 6, 0, 0>>}}

EntryCalls ==
    {[fn |-> "parse_exif_entry", f |-> p[1].self, warnings |-> p[2]] :
        p \in {c \in EntryCopies : c.ret} \X {<<>>, <<Str("earlier warning")>>}}

InitEntry ==
    /\ args \in EntryCalls
    /\ out = NoCall
    /\ pc = "parse_exif_entry"
    /\ contents = <<>>
    /\ entry = NoEntry
    /\ ret = FALSE
    /\ warnings = <<>>
    /\ le = FALSE
    /\ offset = U(0)
    /\ exif_entries = <<>>
    /\ ifd = <<>>
    /\ idx = 1
    /\ exif_entries_copy = <<>>
    /\ pidx = 1
    /\ result = Pending
    /\ walks = <<>>
    /\ arith = {}
    /\ posts = <<>>

ParseExifEntry ==
    /\ pc = "parse_exif_entry"
    /\ out' = parse_exif_entry(args.f, args.warnings)
    /\ pc' = "returned"
    /\ UNCHANGED <<contents, warnings, le, offset, exif_entries, ifd, idx,
                   exif_entries_copy, pidx, result, walks, arith, posts, entry,
                   ret, args>>

NextEntry == ParseExifEntry

SpecEntry == InitEntry /\ [][NextEntry]_vars

-----------------------------------------------------------------------------
(* parse_exif_entry at the ends of the u32 range of count *)

CountTags == {274, 282, 296, 34665, 34853, 34855}

\* counts on both sides of 2^31, and the last two of the u32 range
LargeCounts == {[hi |-> 32767, lo |-> 65535], [hi |-> 32768, lo |-> 0],
                [hi |-> 32768, lo |-> 1], [hi |-> 32768, lo |-> 3],
                [hi |-> 65535, lo |-> 65534], [hi |-> 65535, lo |-> 65535]}

CountSlots == {<<0, 0, 0, 4>>, <<4, 0, 0, 0>>, <<6, 0, 0, 0>>, <<0, 6, 0, 0>>}

\* entries in their descriptor's format: small counts with their payload
\* resolved, large counts as parse_ifd leaves them (no buffer holds 2^31
\* elements here)
CountEntries ==
    {c.self : c \in {c \in {copy_data(IfdEntry(p[1], tag_to_exif(p[1]).format, U(p[2]),
                                               p[4], p[3]), EntryBuffer) :
                                 p \in CountTags \X (0..MaxEntryCount) \X BOOLEAN
                                          \X CountSlots} : c.ret}}
      \cup {IfdEntry(p[1], tag_to_exif(p[1]).format, p[2], p[4], p[3]) :
                p \in CountTags \X LargeCounts \X BOOLEAN \X CountSlots}

CountCalls ==
    {[fn |-> "parse_exif_entry", f |-> p[1], warnings |-> p[2]] :
        p \in CountEntries \X {<<>>, <<Str("earlier warning")>>}}

InitCount ==
    /\ args \in CountCalls
    /\ out = NoCall
    /\ pc = "parse_exif_entry"
    /\ contents = <<>>
    /\ entry = NoEntry
    /\ ret = FALSE
    /\ warnings = <<>>
    /\ le = FALSE
    /\ offset = U(0)
    /\ exif_entries = <<>>
    /\ ifd = <<>>
    /\ idx = 1
    /\ exif_entries_copy = <<>>
    /\ pidx = 1
    /\ result = Pending
    /\ walks = <<>>
    /\ arith = {}
    /\ posts = <<>>

SpecCount == InitCount /\ [][NextEntry]_vars

-----------------------------------------------------------------------------
(* ifdformat_new on its own: every 16-bit code *)

FormatCalls == {[fn |-> "ifdformat_new", n |-> n] : n \in 0..(Base - 1)}

InitFormat ==
    /\ args \in FormatCalls
    /\ out = NoCall
    /\ pc = "ifdformat_new"
    /\ contents = <<>>
    /\ entry = NoEntry
    /\ ret = FALSE
    /\ warnings = <<>>
    /\ le = FALSE
    /\ offset = U(0)
    /\ exif_entries = <<>>
    /\ ifd = <<>>
    /\ idx = 1
    /\ exif_entries_copy = <<>>
    /\ pidx = 1
    /\ result = Pending
    /\ walks = <<>>
    /\ arith = {}
    /\ posts = <<>>

IfdformatNew ==
    /\ pc = "ifdformat_new"
    /\ out' = ifdformat_new(args.n)
    /\ pc' = "returned"
    /\ UNCHANGED <<contents, warnings, le, offset, exif_entries, ifd, idx,
                   exif_entries_copy, pidx, result, walks, arith, posts, entry,
                   ret, args>>

NextFormat == IfdformatNew

SpecFormat == InitFormat /\ [][NextFormat]_vars

-----------------------------------------------------------------------------
(* The claims.  What a claim expects is computed from the bytes of the     *)
(* buffer by the readers below, not by the operators of the decoder.       *)

Field16(c, l, at) ==
    IF l THEN c[at + 1] + 256 * c[at + 2] ELSE 256 * c[at + 1] + c[at + 2]

Field32(c, l, at) ==
    IF l THEN [hi |-> Field16(c, l, at + 2), lo |-> Field16(c, l, at)]
    ELSE [hi |-> Field16(c, l, at), lo |-> Field16(c, l, at + 2)]

Fatal(kind, msg) ==
    [status |-> "Err", err |-> [kind |-> kind, msg |-> msg], entries |-> <<>>]

ErrorKinds == {"TiffTruncated", "TiffBadPreamble", "IfdTruncated", "ExifIfdTruncated"}

\* no sum or product comes near the 2^64 of a usize: all stay below 2^36
UsizeHeadroom == 2^20

\* C1: parse_tiff ends in Ok(entries) or in one of the typed errors; no index
\* or slice access aborts, in parse_tiff, parse_ifds, parse_exif_ifd, parse_ifd
\* or copy_data, and no usize sum or product of file-derived numbers overflows.
C1_OkOrTypedError ==
    /\ result.status # "Panic"
    /\ \A i \in 1..Len(walks) : ~walks[i].panic
    /\ pc = "done" => result.status \in {"Ok", "Err"}
    /\ result.status = "Err" => result.err.kind \in ErrorKinds /\ result.entries = <<>>
    /\ result.status = "Ok" => result.err = Ok
    /\ \A w \in arith : w.hi >= 0 /\ w.hi < UsizeHeadroom /\ w.lo \in 0..(Base - 1)

\* a successful parse that dropped an entry whose window ends beyond 2^32
C1_Witness ==
    /\ pc = "done"
    /\ result.status = "Ok"
    /\ Len(result.entries) > 0
    /\ Len(walks) = 2
    /\ \E w \in arith : w.hi >= Base

\* C2: a buffer of 0 to 7 bytes gives TiffTruncated whatever its bytes are; no
\* directory is walked and nothing is appended to the warnings.
C2_ShortBufferTruncated ==
    Len(contents) < 8 =>
        /\ pc \in {"parse_tiff", "done"}
        /\ walks = <<>>
        /\ warnings = <<>>
        /\ exif_entries = <<>>
        /\ pc = "done" => result = Fatal("TiffTruncated", <<>>)

\* seven bytes that start with a valid preamble
C2_Witness ==
    /\ pc = "done"
    /\ Len(contents) = 7
    /\ SubSeq(contents, 1, 4) = <<73, 73, 42, 0>>
    /\ result.err.kind = "TiffTruncated"

IsII(c) == SubSeq(c, 1, 4) = <<73, 73, 42, 0>>
IsMM(c) == SubSeq(c, 1, 4) = <<77, 77, 0, 42>>

\* C3: with 8 bytes or more the preamble passes exactly for II 2A 00 (the
\* walk is then little-endian) and MM 00 2A (big-endian); any other four
\* bytes give TiffBadPreamble with those four bytes in hexadecimal; the root
\* offset is bytes 4..7 in the selected order.
C3_Preamble ==
    (Len(contents) >= 8 /\ pc # "parse_tiff") =>
        /\ IsII(contents) =>
              /\ le
              /\ offset = [hi |-> contents[8] * 256 + contents[7],
                           lo |-> contents[6] * 256 + contents[5]]
        /\ IsMM(contents) =>
              /\ ~le
              /\ offset = [hi |-> contents[5] * 256 + contents[6],
                           lo |-> contents[7] * 256 + contents[8]]
        /\ (IsII(contents) \/ IsMM(contents)) =>
              /\ result.err.kind # "TiffBadPreamble"
              /\ \A i \in 1..Len(exif_entries) : exif_entries[i].ifd.le = le
              /\ \A i \in 1..Len(ifd) : ifd[i].le = le
              /\ pc = "done" => Len(walks) >= 1 /\ walks[1].offset = offset
        /\ ~(IsII(contents) \/ IsMM(contents)) =>
              /\ pc = "done"
              /\ walks = <<>>
              /\ result = Fatal("TiffBadPreamble",
                                <<Lit("Preamble is ")>> \o Hex(contents[1])
                                    \o <<Lit(" ")>> \o Hex(contents[2])
                                    \o <<Lit(" ")>> \o Hex(contents[3])
                                    \o <<Lit(" ")>> \o Hex(contents[4]))

\* the little-endian order marker with the big-endian version marker
C3_Witness ==
    /\ pc = "done"
    /\ Len(contents) >= 8
    /\ SubSeq(contents, 1, 4) = <<73, 73, 0, 42>>
    /\ result.err.kind = "TiffBadPreamble"

\* walk i is the last one and ends the parse with ExifIfdTruncated(msg)
WalkFatal(i, msg) ==
    /\ i = Len(walks)
    /\ pc = "done"
    /\ walks[i].res = [kind |-> "ExifIfdTruncated", msg |-> <<Lit(msg)>>]
    /\ result = Fatal("ExifIfdTruncated", <<Lit(msg)>>)

\* the entry count of the directory at offset O does not fit the buffer
CountCut(O) == WLt(U(Len(contents)), WAdd(O, U(2)))

\* the directory at offset O: its end, counted from the entry count read
ListingEnd(O) == WInt(O) + 2 + 12 * Field16(contents, le, WInt(O))

\* C4: a walked directory (the root, a followed sub-directory) at offset O
\* whose entry count or whose listing of 12 * count bytes runs past the buffer
\* ends the whole parse with ExifIfdTruncated ("Truncated at dir entry count",
\* "Truncated at dir listing") and no entry, whatever was decoded before.
C4_DirectoryTruncationFatal ==
    /\ \A i \in 1..Len(walks) :
          IF CountCut(walks[i].offset)
          THEN WalkFatal(i, "Truncated at dir entry count")
          ELSE Len(contents) < ListingEnd(walks[i].offset)
                   => WalkFatal(i, "Truncated at dir listing")
    /\ (pc \notin {"parse_tiff", "parse_ifds"}
            /\ result.err.kind \notin {"TiffTruncated", "TiffBadPreamble"})
           => Len(walks) >= 1 /\ walks[1].offset = offset

\* the root directory was decoded with entries and the sub-directory's listing
\* is cut
C4_Witness ==
    /\ pc = "done"
    /\ Len(walks) = 2
    /\ walks[1].res = Ok
    /\ exif_entries # <<>>
    /\ ~CountCut(walks[2].offset)
    /\ Len(contents) < ListingEnd(walks[2].offset)
    /\ result.entries = <<>>

\* the root directory is whole (count and listing inside the buffer)
RootWhole == ~CountCut(offset) /\ ListingEnd(offset) <= Len(contents)

\* root entry i (0-based) is an Exif or GPS pointer whose offset is past the end
FarPointer(i) ==
    LET at == WInt(offset) + 2 + 12 * i
    IN  /\ Field16(contents, le, at) \in {34665, 34853}
        /\ WLt(U(Len(contents)), Field32(contents, le, at + 8))

HasFarPointer ==
    /\ pc = "done"
    /\ result.err.kind \notin {"TiffTruncated", "TiffBadPreamble"}
    /\ RootWhole
    /\ \E i \in 0..(Field16(contents, le, WInt(offset)) - 1) : FarPointer(i)

\* the 4 bytes after the root listing are inside the buffer
NextFieldFits == ListingEnd(offset) + 4 <= Len(contents)

-----------------------------------------------------------------------------
(* Directory records read from the bytes of the buffer *)

\* the record i (0-based) of the directory at offset O starts here
RecordAt(O, i) == WInt(O) + 2 + 12 * i

\* element size by format code
ElementSize(code) ==
    IF code \in {3, 8} THEN 2
    ELSE IF code \in {4, 9, 11} THEN 4
    ELSE IF code \in {5, 10, 12} THEN 8
    ELSE 1

PayloadLength(at) ==
    WMul(Field32(contents, le, at + 4), ElementSize(Field16(contents, le, at + 2)))

PayloadOffset(at) == Field32(contents, le, at + 8)

\* the payload of the record at `at` resolves: it is inline, or its offset
\* window is inside the buffer
Resolves(at) ==
    \/ WLe(PayloadLength(at), U(4))
    \/ WLe(WAdd(PayloadOffset(at), PayloadLength(at)), U(Len(contents)))

\* tag, format code, count, inline slot and payload bytes of the record at `at`
RawSummary(at) ==
    LET code == Field16(contents, le, at + 2)
    IN  <<Field16(contents, le, at),
          IF code \in 1..12 THEN code ELSE 0,
          Field32(contents, le, at + 4),
          SubSeq(contents, at + 9, at + 12),
          IF WLe(PayloadLength(at), U(4)) THEN SubSeq(contents, at + 9, at + 12)
          ELSE SubSeq(contents, WInt(PayloadOffset(at)) + 1,
                      WInt(PayloadOffset(at)) + WInt(PayloadLength(at)))>>

\* the records of the directory at O whose payload resolves, from record i on
RECURSIVE Kept(_, _, _)
Kept(O, i, n) ==
    IF i >= n THEN <<>>
    ELSE (IF Resolves(RecordAt(O, i)) THEN <<RawSummary(RecordAt(O, i))>> ELSE <<>>)
         \o Kept(O, i + 1, n)

\* the same five fields of a decoded entry
Summary(e) ==
    <<e.ifd.tag, FormatCode(e.ifd.format), e.ifd.count, e.ifd.ifd_data, e.ifd.data>>

\* what the walk w added to the result
Contributed(w) ==
    [k \in 1..(w.last - w.first + 1) |-> Summary(exif_entries[w.first + k - 1])]

\* the directory at O is whole: its count and its listing are inside the buffer
Whole(O) == ~CountCut(O) /\ ListingEnd(O) <= Len(contents)

\* a decoded entry the table recognizes and that was returned as unrecognized
Downgraded(e) == e.tag = "UnknownToMe" /\ tag_to_exif(e.ifd.tag).tag # "UnknownToMe"

\* C6: a walked directory that is whole ends Ok, and the entries it added to
\* the result are exactly its records whose payload resolves (length <= 4, or
\* the window [O, O+length) inside the buffer), in directory order; a record
\* whose window is outside the buffer is left out, appends no warning (every
\* warning belongs to an entry of the result), leaves the later records of the
\* directory decoded as they are, and does not make the walk an Err.
C6_ResolvedEntriesInOrder ==
    /\ \A i \in 1..Len(walks) :
          Whole(walks[i].offset) =>
              /\ walks[i].res = Ok
              /\ Contributed(walks[i])
                     = Kept(walks[i].offset, 0, Field16(contents, le, WInt(walks[i].offset)))
    /\ \A i \in 1..Len(walks) : walks[i].res # Ok => walks[i].last < walks[i].first
    /\ Len(warnings) = Cardinality({i \in 1..Len(exif_entries) : Downgraded(exif_entries[i])})

\* a root directory of two records: the first does not resolve, the second is
\* decoded as if it stood alone, and the parse returns it
C6_Witness ==
    /\ pc = "done"
    /\ result.status = "Ok"
    /\ Len(walks) = 1
    /\ Field16(contents, le, WInt(offset)) = 2
    /\ ~Resolves(RecordAt(offset, 0))
    /\ Resolves(RecordAt(offset, 1))
    /\ Len(result.entries) = 1
    /\ result.entries[1].tag = "Orientation"
    /\ warnings = <<>>

\* the format or the count of an entry disagrees with the row of its tag
Mismatch(f) ==
    LET d == tag_to_exif(f.tag)
    IN  /\ d.tag # "UnknownToMe"
        /\ \/ d.format # f.format
           \/ /\ d.min_count # -1
              /\ (WLt(f.count, U(d.min_count)) \/ WLt(U(d.max_count), f.count))

\* the indexes of the decoded entries with a mismatch, in order
RECURSIVE Mismatched(_)
Mismatched(i) ==
    IF i > Len(exif_entries) THEN <<>>
    ELSE (IF Mismatch(exif_entries[i].ifd) THEN <<i>> ELSE <<>>) \o Mismatched(i + 1)

\* nothing in the buffer is cut or points past its end
NothingFatal ==
    /\ pc = "done"
    /\ Len(walks) >= 1
    /\ \A i \in 1..Len(walks) : Whole(walks[i].offset)
    /\ NextFieldFits
    /\ \A i \in 0..(Field16(contents, le, WInt(offset)) - 1) : ~FarPointer(i)

\* C7: an entry with a recognized tag code whose format differs from the row's
\* format, or whose count is outside the row's [min,max] (min not -1), is
\* returned on the unrecognized path (tag UnknownToMe, readable string the
\* Display of the value) with exactly one warning appended, one also when both
\* disagree; entries without a mismatch append none and a recognized one keeps
\* the row's tag; the walk goes on and the parse still returns Ok.
C7_MismatchDowngradedOneWarning ==
    /\ \A i \in 1..Len(exif_entries) :
          LET e == exif_entries[i]
          IN  /\ Mismatch(e.ifd) =>
                    /\ e.tag = "UnknownToMe"
                    /\ e.value_more_readable = Display(e.value)
              /\ ~Mismatch(e.ifd) => e.tag = tag_to_exif(e.ifd.tag).tag
    /\ Len(warnings) = Len(Mismatched(1))
    /\ \A j \in 1..Len(warnings) :
          /\ warnings[j][1] = Lit("EXIF tag")
          /\ warnings[j][2] = Num(U(exif_entries[Mismatched(1)[j]].ifd.tag))
    /\ NothingFatal => result.status = "Ok" /\ Len(result.entries) = Len(exif_entries)

\* the orientation tag in ASCII format with 2 elements (format and count both
\* disagree), followed by an entry that is still decoded
C7_Witness ==
    /\ pc = "done"
    /\ result.status = "Ok"
    /\ Len(result.entries) = 2
    /\ result.entries[1].ifd.tag = 274
    /\ result.entries[1].ifd.format = "Ascii"
    /\ result.entries[1].ifd.count = U(2)
    /\ result.entries[1].tag = "UnknownToMe"
    /\ result.entries[2].tag = "Orientation"
    /\ Len(warnings) = 1

\* C8 as stated: an entry with a tag code absent from the table, and one
\* downgraded by a mismatch, is in the output with tag UnknownToMe, its raw
\* entry and typed value intact, an empty unit and the Display of the value as
\* its readable string.
C8_UnknownEmptyUnit ==
    \A i \in 1..Len(exif_entries) :
        LET e == exif_entries[i]
        IN  (tag_to_exif(e.ifd.tag).tag = "UnknownToMe" \/ Mismatch(e.ifd)) =>
                /\ e.tag = "UnknownToMe"
                /\ e.value = tag_value_new(e.ifd)
                /\ e.value_more_readable = Display(e.value)
                /\ e.unit = ""

\* C9 as stated: after a successful copy_data the payload `data` is
\* element-size(format) * count bytes long, for inline entries of length 0 to
\* 3 as for offset-indirected ones.
C9_DataLengthIsSizeTimesCount ==
    (pc = "copied" /\ ret) =>
        U(Len(entry.data)) = WMul(entry.count, ElementSize(FormatCode(entry.format)))

-----------------------------------------------------------------------------
(* The order of the list and the pointers followed *)

\* the number of records of the root directory
RootCount == Field16(contents, le, WInt(offset))

\* the record at `at` carries the Exif or the GPS pointer tag
PointerTag(at) == Field16(contents, le, at) \in {34665, 34853}

\* the resolving records of the directories the root's pointer records point
\* to, from root record i on
RECURSIVE SubKept(_)
SubKept(i) ==
    IF i >= RootCount THEN <<>>
    ELSE (IF PointerTag(RecordAt(offset, i))
          THEN Kept(PayloadOffset(RecordAt(offset, i)), 0,
                    Field16(contents, le, WInt(PayloadOffset(RecordAt(offset, i)))))
          ELSE <<>>)
         \o SubKept(i + 1)

ReturnedSummaries == [k \in 1..Len(result.entries) |-> Summary(result.entries[k])]

\* C11: the list parse_tiff returns holds the entries of the root directory
\* first, in root order, then the entries of each followed sub-directory, the
\* sub-directories in the order of their pointer records in the root and each
\* in its own directory order.
C11_RootThenSubDirectoriesInOrder ==
    (pc = "done" /\ result.status = "Ok") =>
        ReturnedSummaries = Kept(offset, 0, RootCount) \o SubKept(0)

\* two pointers to different directories with a plain entry of the root between
\* them; both directories contributed entries
C11_Witness ==
    /\ pc = "done"
    /\ result.status = "Ok"
    /\ RootCount = 3
    /\ PointerTag(RecordAt(offset, 0))
    /\ ~PointerTag(RecordAt(offset, 1))
    /\ PointerTag(RecordAt(offset, 2))
    /\ Len(walks) = 3
    /\ walks[2].offset # walks[3].offset
    /\ walks[1].last >= walks[1].first
    /\ walks[2].last >= walks[2].first
    /\ walks[3].last >= walks[3].first

\* the offsets in the slots of the root's pointer records, from record i up to
\* record n - 1
RECURSIVE PointerOffsets(_, _)
PointerOffsets(i, n) ==
    IF i >= n THEN <<>>
    ELSE (IF PointerTag(RecordAt(offset, i))
          THEN <<PayloadOffset(RecordAt(offset, i))>> ELSE <<>>)
         \o PointerOffsets(i + 1, n)

WalkOffsets == [j \in 1..Len(walks) |-> walks[j].offset]

\* C12: every root record with the Exif (0x8769) or GPS (0x8825) pointer tag
\* is followed by one directory walk of its own: once the scan has passed the
\* first m root records the walks are the root's and one per pointer record
\* among them, in order, so k pointer records (duplicates included) give k
\* sub-directory walks, and two pointers to one offset add that directory's
\* entries twice.
C12_EveryPointerFollowed ==
    /\ (pc = "scan" /\ idx <= Len(ifd) + 1)
           => WalkOffsets = <<offset>> \o PointerOffsets(0, idx - 1)
    /\ (pc = "postprocessing" \/ (pc = "done" /\ result.status = "Ok"))
           => /\ WalkOffsets = <<offset>> \o PointerOffsets(0, RootCount)
              /\ \A j \in 1..Len(walks) :
                    Contributed(walks[j])
                        = Kept(walks[j].offset, 0,
                               Field16(contents, le, WInt(walks[j].offset)))

\* two records with the Exif pointer tag to the same directory, which is in
\* the result twice
C12_Witness ==
    /\ pc = "done"
    /\ result.status = "Ok"
    /\ RootCount = 4
    /\ Field16(contents, le, RecordAt(offset, 1)) = 34665
    /\ Field16(contents, le, RecordAt(offset, 3)) = 34665
    /\ Len(walks) = 3
    /\ walks[2].offset = walks[3].offset
    /\ walks[2].last >= walks[2].first
    /\ Contributed(walks[2]) = Contributed(walks[3])
    /\ Len(result.entries) = walks[3].last

\* C13: on a successful parse the postprocessing collaborator is called once
\* per decoded entry, in accumulation order (call j is for entry j), each call
\* after every directory the root points to was merged into the accumulator
\* and with a list as long as the accumulator; on a fatal error it is called
\* for no entry.
C13_PostprocessingOncePerEntry ==
    /\ \A j \in 1..Len(posts) :
          /\ posts[j].index = j
          /\ Len(posts[j].entries) = Len(exif_entries)
    /\ posts # <<>> =>
          /\ pc \in {"postprocessing", "done"}
          /\ WalkOffsets = <<offset>> \o PointerOffsets(0, RootCount)
          /\ \A j \in 1..Len(walks) : walks[j].res = Ok
    /\ pc = "postprocessing" => Len(posts) = pidx - 1
    /\ (pc = "done" /\ result.status = "Ok") => Len(posts) = Len(result.entries)
    /\ result.status \in {"Err", "Panic"} => posts = <<>>

\* a root directory and a sub-directory were merged, then each of the entries
\* was postprocessed
C13_Witness ==
    /\ pc = "done"
    /\ result.status = "Ok"
    /\ Len(walks) = 2
    /\ walks[1].last >= 1
    /\ walks[2].last > walks[1].last
    /\ Len(posts) = walks[2].last
    /\ posts[Len(posts)].index = Len(result.entries)

\* record i (0-based) of a listing, as parse_ifd is to build it
RecordEntry(c, l, i) ==
    LET code == Field16(c, l, 12 * i + 2)
    IN  [namespace |-> "Standard", tag |-> Field16(c, l, 12 * i),
         format |-> IF code \in 1..12
                    THEN CHOOSE f \in IfdFormat : FormatCode(f) = code
                    ELSE "Unknown",
         count |-> Field32(c, l, 12 * i + 4),
         ifd_data |-> SubSeq(c, 12 * i + 9, 12 * i + 12),
         le |-> l, ext_data |-> <<>>, data |-> <<>>]

\* C14 as stated: with every read inside `contents`, parse_ifd returns `count`
\* entries in directory order, entry i from the 12-byte record at 12*i in the
\* order `le`, a sub-directory reading no next-directory field and a root the 4
\* bytes at 12*count; a read past the end of `contents`, of a record or of the
\* root's field, makes it return None and does not abort.
C14_ParseIfdNoneOnShortRead ==
    pc = "returned" =>
        IF 12 * args.count + (IF args.subifd THEN 0 ELSE 4) <= Len(args.contents)
        THEN /\ out.kind = "Some"
             /\ out.entries = [i \in 1..args.count |->
                                   RecordEntry(args.contents, args.le, i - 1)]
             /\ out.next_ifd = IF args.subifd THEN U(0)
                               ELSE Field32(args.contents, args.le, 12 * args.count)
        ELSE out.kind = "None"

IntegerVariants == {"U8", "U16", "U32", "I8", "I16", "I32"}
NotNumeric == {"Ascii", "Undefined", "Unknown", "Invalid"}

\* C15: to_i64(index) and to_f64(index) return, for every variant and index,
\* None when the index is out of bounds or the variant is not numeric for the
\* accessor (to_i64: all but U8, U16, U32, I8, I16, I32; to_f64: Ascii,
\* Undefined, Unknown, Invalid), and otherwise Some of the element at the
\* index; where to_i64 gives Some(n), to_f64 gives Some of the same number.
C15_NumericAccessors ==
    pc = "returned" =>
        LET v == args.value
            inside == args.index < Len(v.v)
        IN  /\ out.i64.some = (v.variant \in IntegerVariants /\ inside)
            /\ out.f64.some = (v.variant \notin NotNumeric /\ inside)
            /\ out.i64.some =>
                  /\ out.i64.v = v.v[args.index + 1]
                  /\ out.f64 = [some |-> TRUE,
                                v |-> [kind |-> "int", n |-> out.i64.v]]
            /\ (out.f64.some /\ ~out.i64.some) =>
                  out.f64.v.n = IF v.variant \in {"URational", "IRational"}
                                THEN <<v.v[args.index + 1].numerator,
                                       v.v[args.index + 1].denominator>>
                                ELSE v.v[args.index + 1]
            /\ ~out.i64.some => out.i64 = [some |-> FALSE, v |-> <<>>]
            /\ ~out.f64.some => out.f64 = [some |-> FALSE, v |-> <<>>]

\* the second of two I16 elements, a negative number, read by both accessors
C15_Witness ==
    /\ pc = "returned"
    /\ args.value.variant = "I16"
    /\ Len(args.value.v) = 2
    /\ args.index = 1
    /\ out.i64 = [some |-> TRUE, v |-> [hi |-> -1, lo |-> 32769]]
    /\ out.f64.some

\* the outcome of parse_exif_entry for a raw entry, from the table's row
Outcome(f) ==
    LET d == tag_to_exif(f.tag)
    IN  IF d.tag = "UnknownToMe" THEN "unrecognized"
        ELSE IF d.format # f.format THEN "format mismatch"
        ELSE IF d.min_count # -1
                /\ (WLt(f.count, U(d.min_count)) \/ WLt(U(d.max_count), f.count))
             THEN "count mismatch"
        ELSE "accepted"

\* C16: in each of the four outcomes of parse_exif_entry (unrecognized tag,
\* format mismatch, count mismatch, accepted) the entry returned has the value
\* decoded from the raw entry alone, the raw entry itself as ifd and the raw
\* entry's namespace; only tag, unit and readable string depend on the row of
\* the descriptor table.
C16_ValueAndRawEntryKept ==
    pc = "returned" =>
        /\ ~out.panic
        /\ out.e.value = tag_value_new(args.f)
        /\ out.e.value.variant = args.f.format
        /\ out.e.ifd = args.f
        /\ out.e.namespace = args.f.namespace
        /\ DOMAIN out.e = {"namespace", "ifd", "tag", "value", "unit",
                           "value_more_readable"}

\* a count mismatch on an offset-indirected entry: the three U16 elements are
\* still in the value
C16_Witness ==
    /\ pc = "returned"
    /\ Outcome(args.f) = "count mismatch"
    /\ args.f.tag = 274
    /\ args.f.count = U(3)
    /\ out.e.value.variant = "U16"
    /\ Len(out.e.value.v) = 3
    /\ out.e.ifd.data = args.f.ext_data
    /\ out.e.tag = "UnknownToMe"

\* C17: an entry whose tag the table recognizes, whose format is the row's and
\* whose count is inside the row's [min,max] (or min = -1) is returned with the
\* row's tag, the row's unit and the row's formatting function applied to the
\* value as readable string, and no warning is appended; in every other case
\* the readable string is the Display of the value, not the formatted one.
C17_AcceptedEntryFormatted ==
    pc = "returned" =>
        LET d == tag_to_exif(args.f.tag)
        IN  IF Outcome(args.f) = "accepted"
            THEN /\ out.e.tag = d.tag
                 /\ out.e.unit = d.unit
                 /\ out.e.value_more_readable = more_readable(d.more_readable, out.e.value)
                 /\ out.warnings = args.warnings
                 /\ ~out.panic
            ELSE /\ out.e.tag = "UnknownToMe"
                 /\ out.e.value_more_readable = Display(out.e.value)

\* an orientation of 6, which the formatting function names
C17_Witness ==
    /\ pc = "returned"
    /\ Outcome(args.f) = "accepted"
    /\ out.e.tag = "Orientation"
    /\ out.e.unit = "none"
    /\ out.e.value_more_readable = <<Lit("Rotated to left")>>
    /\ Display(out.e.value) = <<Num(U(6))>>
    /\ args.warnings # <<>>
    /\ out.warnings = args.warnings

\* C18: ifdformat_new undoes the cast of an IfdFormat to its u16 code: for
\* each of the 13 formats f the code `f as u16` gives f back, and every 16-bit
\* code outside 1..12 (0 and 13..65535) gives Unknown.
C18_IfdformatNewInvertsCast ==
    pc = "returned" =>
        /\ \A f \in IfdFormat : args.n = FormatCode(f) => out = f
        /\ args.n \notin 1..12 => out = "Unknown"
        /\ out \in IfdFormat
        /\ Cardinality({FormatCode(f) : f \in IfdFormat}) = 13

\* the code of I16
C18_Witness ==
    /\ pc = "returned"
    /\ args.n = 8
    /\ out = "I16"

\* C19: parse_tiff fails with IfdTruncated exactly when the root directory's
\* entry count and its listing of 12 * count bytes are inside the buffer and
\* fewer than 4 bytes follow the listing; the root's entries were all decoded
\* by then and none is returned.
C19_IfdTruncatedIffTrailerMissing ==
    /\ result.err.kind = "IfdTruncated" =>
          /\ pc = "done"
          /\ Len(contents) >= 8
          /\ IsII(contents) \/ IsMM(contents)
    /\ (pc = "done" /\ Len(contents) >= 8 /\ (IsII(contents) \/ IsMM(contents))) =>
          /\ result.err.kind = "IfdTruncated" <=> (RootWhole /\ ~NextFieldFits)
          /\ result.err.kind = "IfdTruncated" =>
                /\ result = Fatal("IfdTruncated", <<>>)
                /\ Len(walks) = 1
                /\ walks[1].res = Ok
                /\ [k \in 1..Len(exif_entries) |-> Summary(exif_entries[k])]
                       = Kept(offset, 0, RootCount)

\* two root entries were decoded and 3 bytes follow the listing
C19_Witness ==
    /\ pc = "done"
    /\ result.err.kind = "IfdTruncated"
    /\ Len(exif_entries) = 2
    /\ Len(contents) = ListingEnd(offset) + 3

\* the 4-byte slot of the record at `at` as an unsigned 32-bit number in the
\* byte order of the container
SlotAsU32(at) ==
    IF le
    THEN [hi |-> contents[at + 12] * 256 + contents[at + 11],
          lo |-> contents[at + 10] * 256 + contents[at + 9]]
    ELSE [hi |-> contents[at + 9] * 256 + contents[at + 10],
          lo |-> contents[at + 11] * 256 + contents[at + 12]]

\* C20: the directory walked for a pointer record of the root is at the
\* record's 4-byte slot read as an unsigned 32-bit number in the container's
\* byte order, whatever format and count the record declares (also when
\* size * count > 4 and the slot is the offset of a payload), and whether or
\* not the first pass dropped the record's entry or downgraded it; no other
\* directory is walked, and the parse fails for a sub-directory past the end
\* of the buffer only if such a slot is past the end.
C20_SubDirectoryAtInlineSlot ==
    /\ (pc = "postprocessing" \/ (pc = "done" /\ result.status = "Ok")) =>
          \A i \in 0..(RootCount - 1) :
              PointerTag(RecordAt(offset, i)) =>
                  LET k == Len(PointerOffsets(0, i + 1))
                  IN  /\ Len(walks) >= 1 + k
                      /\ walks[1 + k].offset = SlotAsU32(RecordAt(offset, i))
                      /\ walks[1 + k].res = Ok
    /\ \A j \in 2..Len(walks) :
          \E i \in 0..(RootCount - 1) :
              /\ PointerTag(RecordAt(offset, i))
              /\ walks[j].offset = SlotAsU32(RecordAt(offset, i))
    /\ result.err = ExifIfdTruncated("Exif SubIFD goes past EOF") =>
          \E i \in 0..(RootCount - 1) :
              /\ PointerTag(RecordAt(offset, i))
              /\ WLt(U(Len(contents)), SlotAsU32(RecordAt(offset, i)))

\* a pointer record declared as 2^28 rationals: its entry was dropped in the
\* first pass (the root contributed its other entry only) and the directory at
\* its slot was walked and contributed
C20_Witness ==
    /\ pc = "done"
    /\ result.status = "Ok"
    /\ RootCount = 2
    /\ PointerTag(RecordAt(offset, 0))
    /\ ~Resolves(RecordAt(offset, 0))
    /\ Field16(contents, le, RecordAt(offset, 0) + 2) = 5
    /\ Len(walks) = 2
    /\ walks[1].last = 1
    /\ walks[2].offset = SlotAsU32(RecordAt(offset, 0))
    /\ walks[2].last > walks[1].last

\* the walks are the root's and at most one per pointer record of the root
WalkBound ==
    Len(walks) >= 2 => Len(walks) <= 1 + Len(PointerOffsets(0, RootCount))

\* the stages of parse_tiff still to come, and the iterations the loop of the
\* current stage has left: a pair that is ordered lexicographically
Variant ==
    CASE pc = "parse_tiff" -> <<5, 0>>
      [] pc = "parse_ifds" -> <<4, 0>>
      [] pc = "second_pass" -> <<3, 0>>
      [] pc = "scan" -> <<2, Len(ifd) + 1 - idx>>
      [] pc = "postprocessing" -> <<1, Len(exif_entries) + 1 - pidx>>
      [] pc = "done" -> <<0, 0>>

\* the guard of one of the steps holds (what a step assigns is defined for
\* every state its guard admits)
HasNextStep ==
    \/ pc \in {"parse_tiff", "parse_ifds", "second_pass"}
    \/ pc = "scan" /\ idx \in 1..Len(ifd)
    \/ pc = "scan" /\ idx > Len(ifd)
    \/ pc = "postprocessing" /\ pidx \in 1..Len(exif_entries)
    \/ pc = "postprocessing" /\ pidx > Len(exif_entries)

\* C21: parse_tiff terminates on every input (every step decreases the pair of
\* stages to come and loop iterations left, which cannot decrease for ever,
\* and only the end is without a next step), and the number of directory
\* walks is at most 1 + the number of pointer records (0x8769, 0x8825) of the
\* root directory: a pointer record inside a sub-directory is decoded as an
\* ordinary entry and not followed, and a pointer to the root's own offset or
\* to a directory walked before adds that directory's entries once more.
C21_Terminates ==
    [][/\ Variant[1] >= 0 /\ Variant[2] >= 0
       /\ \/ Variant'[1] < Variant[1]
          \/ Variant'[1] = Variant[1] /\ Variant'[2] < Variant[2] /\ Variant'[2] >= 0
       /\ pc' # "done" => HasNextStep'
       /\ WalkBound']_vars

\* the root holds a pointer to itself: the root was walked a second time, its
\* pointer records were decoded as entries there, and the parse ended
C21_Witness ==
    /\ pc = "done"
    /\ result.status = "Ok"
    /\ Len(walks) = 3
    /\ walks[3].offset = offset
    /\ Contributed(walks[3]) = Contributed(walks[1])
    /\ \E k \in walks[3].first..walks[3].last :
          exif_entries[k].ifd.tag \in {34665, 34853}

\* C22: every postprocessing call is handed the same list of siblings, the
\* snapshot of the accumulator taken after the last directory was merged and
\* before the first call: its readable strings are those decoding produced,
\* none is one an earlier call rewrote, and each entry of the result is the
\* postprocessing of its decoded entry against that snapshot, whatever the
\* order of the calls.
C22_PostprocessingReadsSnapshot ==
    /\ \A j \in 1..Len(posts) :
          /\ posts[j].entries = exif_entries_copy
          /\ posts[j].entries = posts[1].entries
          /\ exif_entries[j] = exif_postprocessing(exif_entries_copy[j], exif_entries_copy)
    /\ (pc = "postprocessing" \/ (pc = "done" /\ result.status = "Ok")) =>
          /\ Len(exif_entries_copy) = Len(exif_entries)
          /\ \A k \in 1..Len(exif_entries_copy) :
                /\ exif_entries_copy[k] = parse_exif_entry(exif_entries_copy[k].ifd, <<>>).e
                /\ k > Len(posts) => exif_entries[k] = exif_entries_copy[k]
    /\ (pc = "done" /\ result.status = "Ok") =>
          result.entries = [k \in 1..Len(exif_entries_copy) |->
                                exif_postprocessing(exif_entries_copy[k], exif_entries_copy)]

\* the first call rewrote the readable string of the resolution, and the call
\* after it was handed the string as decoded
C22_Witness ==
    /\ pc = "done"
    /\ result.status = "Ok"
    /\ Len(posts) = 3
    /\ result.entries[1].tag = "XResolution"
    /\ result.entries[3].tag = "ResolutionUnit"
    /\ result.entries[1].value_more_readable
           # exif_entries_copy[1].value_more_readable
    /\ result.entries[1].value_more_readable
           # posts[2].entries[1].value_more_readable
    /\ posts[2].entries[1].value_more_readable
           = rational_value(result.entries[1].value)

\* the fields copy_data is not to touch
Untouched(e) == <<e.namespace, e.tag, e.format, e.count, e.le, e.ifd_data>>

\* C23: a call of copy_data never changes tag, format, count, le, namespace
\* or ifd_data; when it returns false the whole entry is as before (data of a
\* freshly parsed entry stays empty); when it returns true for an inline entry
\* ext_data stays empty; and a second call with the same buffer returns the
\* same and leaves the entry as the first call left it.
C23_CopyDataFrameIdempotent ==
    [][/\ Untouched(entry') = Untouched(entry)
       /\ ~ret' => entry' = entry
       /\ (pc = "copy_data" /\ ~ret') => entry'.data = <<>> /\ entry'.ext_data = <<>>
       /\ (ret' /\ WLe(WMul(entry.count, ElementSize(FormatCode(entry.format))), U(4)))
              => entry'.ext_data = <<>>
       /\ pc = "copied" => entry' = entry /\ ret' = ret]_vars

\* an offset-indirected payload copied twice
C23_Witness ==
    /\ pc = "copied_twice"
    /\ ret
    /\ Len(contents) = 14
    /\ Len(entry.ext_data) = 8
    /\ entry.data = entry.ext_data
    /\ entry.data = SubSeq(contents, 7, 14)

\* min <= count <= max, count taken as the unsigned 32-bit number it is
InRangeUnsigned(f, d) == WLe(U(d.min_count), f.count) /\ WLe(f.count, U(d.max_count))

\* C24: for an entry in its descriptor's format, with a range 0 <= min <= max,
\* the entry is accepted (tag and unit of the descriptor, no warning) exactly
\* when min <= count <= max as unsigned numbers, and is downgraded with one
\* count warning otherwise; a count of 2^31 or more is never accepted.
C24_CountRangeUnsigned ==
    pc = "returned" =>
        LET f == args.f
            d == tag_to_exif(f.tag)
        IN  (d.tag # "UnknownToMe" /\ d.format = f.format
                /\ 0 <= d.min_count /\ d.min_count <= d.max_count) =>
                /\ ~out.panic
                /\ out.e.tag = d.tag <=> InRangeUnsigned(f, d)
                /\ InRangeUnsigned(f, d) =>
                      out.e.unit = d.unit /\ out.warnings = args.warnings
                /\ ~InRangeUnsigned(f, d) =>
                      /\ out.e.tag = "UnknownToMe"
                      /\ out.e.unit = "Unknown"
                      /\ out.warnings = Append(args.warnings, CountWarning(f, d))
                /\ f.count.hi >= 32768 =>
                      /\ out.e.tag = "UnknownToMe"
                      /\ Len(out.warnings) = Len(args.warnings) + 1

\* an Orientation entry of 2^31 + 1 elements, which is 1 in the low 31 bits
C24_Witness ==
    /\ pc = "returned"
    /\ args.f.tag = 274
    /\ args.f.format = "U16"
    /\ args.f.count = [hi |-> 32768, lo |-> 1]
    /\ out.e.tag = "UnknownToMe"
    /\ ~out.panic
    /\ out.warnings = Append(args.warnings, CountWarning(args.f, tag_to_exif(274)))

====
